---- MODULE Spec2Model ----
(***************************************************************************)
(* A model of dewa's download orchestration: downloadVideo                 *)
(* (src/core/downloader.js), the job ledger (src/core/download-manager.js),*)
(* the file helpers (file-manager.js), the metadata fetch (video-info.js)  *)
(* and the server's signal handlers.                                       *)
(*                                                                         *)
(* Text (file names, host names, titles) is a sequence of one-character    *)
(* strings, so that startsWith / includes / replace are computed.          *)
(*                                                                         *)
(* JavaScript scheduling: the code between two awaits runs atomically;     *)
(* every await resumes through the FIFO microtask queue `microq`; child    *)
(* process events and signals are event-loop callbacks, which run only     *)
(* when the microtask queue is empty.  A caller may invoke downloadVideo   *)
(* from any JavaScript context, so a call may start at any time.           *)
(***************************************************************************)
EXTENDS Integers, Sequences, FiniteSets, TLC

(* ----------------------------- bounds ---------------------------------- *)
\* number of downloadVideo calls made by the caller
MaxCalls == 2
\* number of stdout chunks a download child emits before it exits
MaxChunks == 1
\* number of file-system faults (mkdir, read or write of the ledger file)
MaxFaults == 1
\* number of stdout chunks in the longer stream of one job
MaxStream == 5
\* number of records a caller of the ledger creates
MaxIds == 2
\* the last day the clock reaches
MaxDay == 45
\* the stdout chunks the metadata process delivers at most
MaxOutput == 5

Calls == 1..MaxCalls

(* ---------------------------- state ------------------------------------ *)
VARIABLES
    calls,      \* per downloadVideo call: its locals and its result
    child,      \* per call: the download child process and its handlers' locals
    microq,     \* the microtask queue: continuations of suspended awaits
    ledger,     \* the ledger document on disk (DOWNLOAD_HISTORY_FILE)
    files,      \* the files on disk under the download directories
    dirs,       \* the download directories that exist
    faults,     \* file-system faults injected so far
    nextId,     \* the next fresh download id
    alive,      \* FALSE once the server process has exited
    now,        \* the current date, in days
    api,        \* the last ledger call a caller made directly, and its result
    cmd,        \* a getVideoInfo call made directly: its command and its child
    fn,         \* the last call of a pure helper: its arguments and its result
    tool        \* a handleDownloadVideo call: its arguments and its result

vars == <<calls, child, microq, ledger, files, dirs, faults, nextId, alive,
          now, api, cmd, fn, tool>>

\* what a downloadVideo step leaves alone
apiVars == <<now, api, cmd, fn, tool>>

\* what a getVideoInfo step leaves alone
callVars == <<calls, child, microq, ledger, files, dirs, faults, nextId, alive>>

(* ------------------------------ text ----------------------------------- *)
\* String.prototype.startsWith
StartsWith(s, p) == Len(p) <= Len(s) /\ SubSeq(s, 1, Len(p)) = p

\* String.prototype.includes
Includes(s, p) ==
    \E i \in 0..(Len(s) - Len(p)) : SubSeq(s, i + 1, i + Len(p)) = p

\* String.prototype.substring(0, n)
Substring0(s, n) == SubSeq(s, 1, IF n < Len(s) THEN n ELSE Len(s))

MP4 == <<".", "m", "p", "4">>
UnknownVideo == <<"U","n","k","n","o","w","n"," ","V","i","d","e","o">>
UnknownTitle == <<"U","n","k","n","o","w","n"," ","T","i","t","l","e">>
UnknownUploader ==
    <<"U","n","k","n","o","w","n"," ","U","p","l","o","a","d","e","r">>
UnknownDuration ==
    <<"U","n","k","n","o","w","n"," ","D","u","r","a","t","i","o","n">>
Unknown == <<"U","n","k","n","o","w","n">>

(* ----------------------- platforms.js ---------------------------------- *)
\* The one non-ASCII character of the source ('B站-') is the character "U7AD9".
PLATFORM_CONFIG ==
    << [domain |-> <<"y","o","u","t","u","b","e",".","c","o","m">>,
        name |-> "youtube", directory |-> "youtube", prefix |-> <<>>],
       [domain |-> <<"y","o","u","t","u",".","b","e">>,
        name |-> "youtube", directory |-> "youtube", prefix |-> <<>>],
       [domain |-> <<"b","i","l","i","b","i","l","i",".","c","o","m">>,
        name |-> "bilibili", directory |-> "bilibili",
        prefix |-> <<"B","U7AD9","-">>],
       [domain |-> <<"m","a","g","e","n","t","a","m","u","s","i","k",".","d","e">>,
        name |-> "magentamusik", directory |-> "magentamusik", prefix |-> <<>>],
       [domain |-> <<"v","i","m","e","o",".","c","o","m">>,
        name |-> "vimeo", directory |-> "vimeo", prefix |-> <<>>],
       [domain |-> <<"t","w","i","t","c","h",".","t","v">>,
        name |-> "twitch", directory |-> "twitch",
        prefix |-> <<"T","w","i","t","c","h","-">>] >>

DEFAULT_PLATFORM ==
    [name |-> "unknown", directory |-> "downloads", prefix |-> <<>>]

WWW == <<"w","w","w",".">>

\* a hostname left as it was
CleanHostname_Keeps(hostname) == hostname

\* hostname.replace(/^www\./, '')
CleanHostname(hostname) ==
    IF StartsWith(hostname, WWW)
    THEN SubSeq(hostname, Len(WWW) + 1, Len(hostname))
    ELSE hostname

\* A URL is [valid, hostname, path]: `valid` is whether new URL(url) parses,
\* `hostname` its lower-cased host.  The result keeps the fields the
\* orchestrator reads (name, directory, prefix) and the domain.
detectPlatform(url) ==
    IF ~url.valid
    THEN [name |-> DEFAULT_PLATFORM.name,
          directory |-> DEFAULT_PLATFORM.directory,
          prefix |-> DEFAULT_PLATFORM.prefix,
          domain |-> <<"i","n","v","a","l","i","d">>]
    ELSE LET clean == CleanHostname(url.hostname)
             hits == {i \in DOMAIN PLATFORM_CONFIG :
                        \/ Includes(clean, PLATFORM_CONFIG[i].domain)
                        \/ Includes(url.hostname, PLATFORM_CONFIG[i].domain)}
         IN IF hits = {}
            THEN [name |-> DEFAULT_PLATFORM.name,
                  directory |-> DEFAULT_PLATFORM.directory,
                  prefix |-> DEFAULT_PLATFORM.prefix,
                  domain |-> clean]
            ELSE LET first == CHOOSE i \in hits : \A j \in hits : i <= j
                 IN [name |-> PLATFORM_CONFIG[first].name,
                     directory |-> PLATFORM_CONFIG[first].directory,
                     prefix |-> PLATFORM_CONFIG[first].prefix,
                     domain |-> clean]

\* isSupportedPlatform (lines 157-160)
isSupportedPlatform(url) == detectPlatform(url).name # "unknown"

\* The text of a URL is [scheme, www, host]: "" for a missing scheme,
\* whether the host is written with a leading "www.", and the rest of the
\* host.  new URL(text) (line 59) throws without a scheme; the hostname of
\* the URL it builds has no scheme.
NoText == [scheme |-> "", www |-> FALSE, host |-> <<>>]
ParseURL(text) ==
    IF text.scheme = ""
    THEN [valid |-> FALSE, hostname |-> <<>>, path |-> ""]
    ELSE [valid |-> TRUE,
          hostname |-> (IF text.www THEN WWW ELSE <<>>) \o text.host,
          path |-> "/v/1"]

(* ----------------------- file-manager.js ------------------------------- *)
UnsafeChars == {"<", ">", ":", "\"", "/", "\\", "|", "?", "*"}
Whitespace == {" ", "\t", "\n"}

\* the elements of s at the indices in keep, from index i on, in order
KeepFrom(s, i, keep) ==
    IF s = <<>> THEN <<>>
    ELSE LET indexed == [j \in 1..Len(s) |-> <<j, s[j]>>]
             kept == SelectSeq(indexed, LAMBDA p : p[1] >= i /\ p[1] \in keep)
         IN [k \in 1..Len(kept) |-> kept[k][2]]

\* .replace(/[<>:"/\\|?*]/g, '-')
ReplaceUnsafe(s) ==
    [i \in 1..Len(s) |-> IF s[i] \in UnsafeChars THEN "-" ELSE s[i]]

\* .replace(/\s+/g, ' ')
CollapseSpaces(s) ==
    LET first == {i \in 1..Len(s) : \/ s[i] \notin Whitespace
                                     \/ i = 1
                                     \/ s[i - 1] \notin Whitespace}
        kept == KeepFrom(s, 1, first)
    IN [i \in 1..Len(kept) |-> IF kept[i] \in Whitespace THEN " " ELSE kept[i]]

\* .trim()
Trim(s) ==
    LET solid == {i \in 1..Len(s) : s[i] \notin Whitespace}
    IN IF solid = {} THEN <<>>
       ELSE SubSeq(s, CHOOSE i \in solid : \A j \in solid : i <= j,
                      CHOOSE i \in solid : \A j \in solid : i >= j)

\* .replace(/-+/g, '-')
CollapseDashes(s) ==
    LET first == {i \in 1..Len(s) : s[i] # "-" \/ i = 1 \/ s[i - 1] # "-"}
    IN KeepFrom(s, 1, first)

\* .replace(/^-+|-+$/g, '')
StripDashes(s) ==
    LET solid == {i \in 1..Len(s) : s[i] # "-"}
    IN IF solid = {} THEN <<>>
       ELSE SubSeq(s, CHOOSE i \in solid : \A j \in solid : i <= j,
                      CHOOSE i \in solid : \A j \in solid : i >= j)

SanitizeCap == 200

sanitizeFilename(filename) ==
    IF filename = <<>> THEN Unknown
    ELSE LET r == Substring0(
                    StripDashes(CollapseDashes(Trim(CollapseSpaces(
                        ReplaceUnsafe(filename))))), SanitizeCap)
         IN IF r = <<>> THEN Unknown ELSE r

MaxFilenameLength == 255

\* videoInfo is [title, uploader]; an absent field is the empty text
generateFilename(videoInfo, platform) ==
    LET sanitizedTitle ==
            sanitizeFilename(IF videoInfo.title = <<>> THEN UnknownVideo
                             ELSE videoInfo.title)
        sanitizedUploader ==
            sanitizeFilename(IF videoInfo.uploader = <<>> THEN Unknown
                             ELSE videoInfo.uploader)
        filename ==
            CASE platform.name = "youtube" ->
                   sanitizedTitle \o <<" ", "-", " ">> \o sanitizedUploader \o MP4
              [] platform.name = "bilibili" ->
                   platform.prefix \o sanitizedTitle \o <<" ", "-", " ">>
                       \o sanitizedUploader \o MP4
              [] platform.name = "magentamusik" -> sanitizedTitle \o MP4
              [] OTHER -> platform.prefix \o sanitizedTitle \o MP4
    IN IF Len(filename) > MaxFilenameLength
       THEN platform.prefix
              \o Substring0(sanitizedTitle, SanitizeCap - Len(platform.prefix))
              \o MP4
       ELSE filename

\* path.join(directory, filename): a path is [dir, name]
NoUrl == [valid |-> FALSE, hostname |-> <<>>, path |-> ""]
NoPath == [dir |-> "", name |-> <<>>]
JoinPath(directory, filename) == [dir |-> directory, name |-> filename]

\* DEFAULT_CONFIG.downloadPath joined with platform.directory
DownloadDir(platform) == platform.directory

(* ---------------------- download-manager.js ---------------------------- *)
\* an error message: the template text and what is interpolated into it
NoError == [text |-> "", code |-> "", id |-> 0]
NotFoundError(downloadId) ==
    [text |-> "Download record not found: ", code |-> "", id |-> downloadId]
WriteError == [text |-> "EIO: i/o error, write", code |-> "", id |-> 0]
\* what readFileSync or JSON.parse throws inside loadDownloadHistory
ReadError == [text |-> "Unexpected end of JSON input", code |-> "", id |-> 0]
MkdirError ==
    [text |-> "Failed to create directory: ", code |-> "EACCES", id |-> 0]

\* a record's fields, each with the value that stands for its absence
AbsentFields ==
    [id |-> 0, url |-> NoUrl, title |-> <<>>, platform |-> "",
     output_path |-> NoPath, status |-> "",
     started_at |-> FALSE, created_at |-> 0,
     progress |-> "", updated_at |-> FALSE,
     completed_at |-> FALSE, file_path |-> NoPath, file_size |-> "",
     failed_at |-> FALSE, error_message |-> NoError]

\* {id: downloadId, ...record, created_at} (lines 19-23)
BuildRecord(downloadId, record, createdAt) ==
    [f \in DOMAIN AbsentFields |->
        IF f = "created_at" THEN createdAt
        ELSE IF f \in DOMAIN record THEN record[f]
        ELSE IF f = "id" THEN downloadId
        ELSE AbsentFields[f]]

\* the record downloadVideo passes to saveDownloadRecord (lines 80-88), as
\* saveDownloadRecord stores it
NewRecord(downloadId, url, title, outputPath) ==
    BuildRecord(downloadId,
                [url |-> url, title |-> title,
                 platform |-> detectPlatform(url).name,
                 output_path |-> outputPath, status |-> "in_progress",
                 started_at |-> TRUE],
                now)

\* a loadDownloadHistory that returned the document whatever happened
loadDownloadHistory_NeverEmpty(doc, readFails) == doc

\* loadDownloadHistory: the parsed document, or [] when it cannot be read
loadDownloadHistory(doc, readFails) == IF readFails THEN <<>> ELSE doc

\* history.findIndex(record => record.id === downloadId); 0 stands for -1
FindIndex(history, downloadId) ==
    LET hits == {i \in DOMAIN history : history[i].id = downloadId}
    IN IF hits = {} THEN 0 ELSE CHOOSE i \in hits : \A j \in hits : i <= j

\* a merge that left the status of the record as it was
MergeRecord_KeepsStatus(rec, status, additionalData) ==
    [f \in DOMAIN rec |->
        IF f = "updated_at" THEN TRUE
        ELSE IF f \in DOMAIN additionalData THEN additionalData[f]
        ELSE rec[f]]

\* {...history[recordIndex], status, ...additionalData, updated_at}
MergeRecord(rec, status, additionalData) ==
    [f \in DOMAIN rec |->
        IF f = "updated_at" THEN TRUE
        ELSE IF f \in DOMAIN additionalData THEN additionalData[f]
        ELSE IF f = "status" THEN status
        ELSE rec[f]]

\* the history updateDownloadStatus writes back
ApplyUpdate(history, recordIndex, status, additionalData) ==
    [history EXCEPT
        ![recordIndex] = MergeRecord(history[recordIndex], status, additionalData)]

\* getDownloadHistory's filters; "" and 0 stand for an absent filter
NoFilters == [status |-> "", platform |-> "", limit |-> 0]

\* getDownloadHistory on the loaded history (lines 74-100), without sort_by
getDownloadHistory(history, filters) ==
    LET byStatus ==
            IF filters.status \notin {"", "all"}
            THEN SelectSeq(history, LAMBDA r : r.status = filters.status)
            ELSE history
        byPlatform ==
            IF filters.platform \notin {"", "all"}
            THEN SelectSeq(byStatus, LAMBDA r : r.platform = filters.platform)
            ELSE byStatus
    IN IF filters.limit # 0
       THEN SubSeq(byPlatform, 1,
                   IF filters.limit < Len(byPlatform)
                   THEN filters.limit ELSE Len(byPlatform))
       ELSE byPlatform

\* getCurrentDownloads on the loaded history (line 115)
getCurrentDownloads(history) ==
    SelectSeq(history, LAMBDA r : r.status = "in_progress")

\* a filter that drops the oldest record when no record has the id
WithoutRecord_DropsOldest(history, downloadId) ==
    LET filtered == SelectSeq(history, LAMBDA r : r.id # downloadId)
    IN IF Len(filtered) = Len(history) /\ history # <<>>
       THEN Tail(history)
       ELSE filtered

\* deleteDownloadRecord's filter (line 128)
WithoutRecord(history, downloadId) ==
    SelectSeq(history, LAMBDA r : r.id # downloadId)

\* a filter that keeps the record created exactly at the cutoff
NewerThanCutoff_KeepsCutoff(history, daysToKeep, today) ==
    SelectSeq(history, LAMBDA r : r.created_at >= today - daysToKeep)

\* cleanupOldRecords' filter (lines 150-156): the cutoff is today minus
\* daysToKeep, and a record is kept when its date is after the cutoff
NewerThanCutoff(history, daysToKeep, today) ==
    SelectSeq(history, LAMBDA r : r.created_at > today - daysToKeep)

(* ------------------------ video-info.js -------------------------------- *)
\* getVideoInfo, from the lines the metadata process printed: the lines that
\* are not blank, by position
ParseVideoInfo(stdout) ==
    LET NotBlank(line) == Trim(line) # <<>>
        lines == SelectSeq(stdout, NotBlank)
    IN [title |-> IF Len(lines) >= 1 THEN lines[1] ELSE UnknownTitle,
        uploader |-> IF Len(lines) >= 2 THEN lines[2] ELSE UnknownUploader]

\* getVideoInfo's catch: the default record
DefaultVideoInfo == [title |-> UnknownVideo, uploader |-> UnknownUploader]

\* null
Null == <<>>

\* the whole record getVideoInfo builds from the command's output
\* (lines 307-316)
VideoInfo(stdout, url) ==
    LET NotBlank(line) == Trim(line) # <<>>
        lines == SelectSeq(stdout, NotBlank)
    IN [title |-> ParseVideoInfo(stdout).title,
        uploader |-> ParseVideoInfo(stdout).uploader,
        duration |-> IF Len(lines) >= 3 THEN lines[3] ELSE UnknownDuration,
        view_count |-> IF Len(lines) >= 4 THEN lines[4] ELSE Null,
        upload_date |-> IF Len(lines) >= 5 THEN lines[5] ELSE Null,
        url |-> url]

\* the whole default record of the catch (lines 329-336)
DefaultInfo(url) ==
    [title |-> DefaultVideoInfo.title,
     uploader |-> DefaultVideoInfo.uploader,
     duration |-> UnknownDuration,
     view_count |-> Null,
     upload_date |-> Null,
     url |-> url]

NoInfo == DefaultInfo(NoUrl)

\* a getVideoInfo without the catch
getVideoInfo_Rethrows(promise, url) ==
    IF promise.kind = "resolved"
    THEN [outcome |-> "returned", info |-> VideoInfo(promise.value, url)]
    ELSE [outcome |-> "threw", info |-> NoInfo]

\* getVideoInfo once the command's promise is settled (lines 306-337)
getVideoInfo(promise, url) ==
    IF promise.kind = "resolved"
    THEN [outcome |-> "returned", info |-> VideoInfo(promise.value, url)]
    ELSE [outcome |-> "returned", info |-> DefaultInfo(url)]

(* --------------------------- inputs ------------------------------------ *)
ExampleCom == <<"e","x","a","m","p","l","e",".","c","o","m">>
URL1 == [valid |-> TRUE, hostname |-> ExampleCom, path |-> "/v/1"]
URL2 == [valid |-> TRUE, hostname |-> ExampleCom, path |-> "/v/2"]
URLs == {URL1, URL2}

\* what the metadata process prints for a URL when it succeeds:
\* title, uploader, duration, view count, upload date
MetaStdout(url) ==
    IF url = URL1
    THEN << <<"a">>, <<"u">>, <<"3",":","0","0">>, <<"7">>, <<"2","0","2","4">> >>
    ELSE << <<"b">>, <<"u">>, <<"3",":","0","0">>, <<"7">>, <<"2","0","2","4">> >>

\* options.metadata when the caller supplies it (a search result)
GivenMetadata(url) == ParseVideoInfo(MetaStdout(url))

\* the percentage a stdout chunk carries; "" when it has no progress line
Chunks == {"", "50"}
\* the chunks of a longer stream of one job
StreamChunks == {"", "10", "25", "99"}
\* exit codes of the download process
ExitCodes == {0, 1}
\* the negative errno a failed spawn reports to 'close'
SpawnErrno == -2

CodeStr(code) ==
    CASE code = 0 -> "0" [] code = 1 -> "1" [] code = 2 -> "2" [] OTHER -> "-2"

(* ------------------------- state records ------------------------------- *)
NoOutcome == [kind |-> "none", error |-> NoError]
NoResult == [kind |-> "none", file_path |-> NoPath, message |-> NoError]

IdleCall ==
    [pc |-> "idle", url |-> URL1, metaGiven |-> FALSE,
     title |-> <<>>, uploader |-> <<>>, outputPath |-> NoPath,
     downloadId |-> 0, outcome |-> NoOutcome, error |-> NoError,
     result |-> NoResult, prior |-> {}, cleanups |-> 0,
     written |-> "none", wakes |-> 0, created |-> 0]

\* `first` remembers the first terminal event the process delivered,
\* `progFailed` that a progress update of the job was rejected, `lines` the
\* lines of the stdout chunks delivered, `seen` the percentage matched in
\* each chunk and `issued` the percentages for which a progress update was
\* issued
NoEvent == [kind |-> "none", code |-> 0]
NoChild == [state |-> "none", chunks |-> 0, lastProgress |-> "",
            stderr |-> FALSE, code |-> 0, first |-> NoEvent,
            progFailed |-> FALSE, lines |-> <<>>, seen |-> <<>>,
            issued |-> <<>>]

NoData == [f \in {} |-> TRUE]

Task(c, k) ==
    [c |-> c, k |-> k, hist |-> <<>>, id |-> 0, status |-> "",
     add |-> NoData, err |-> NoError, ok |-> TRUE]

\* the promise of execCommand: pending, resolved with the trimmed stdout
\* or rejected with an error (its message, the exit code and the stderr
\* the message carries)
Pending == [kind |-> "pending", value |-> <<>>, message |-> "",
            code |-> "", stderr |-> <<>>]
Resolved(stdout) == [Pending EXCEPT !.kind = "resolved", !.value = stdout]
Rejected(message, code, stderr) ==
    [Pending EXCEPT !.kind = "rejected", !.message = message,
                    !.code = code, !.stderr = stderr]

\* no getVideoInfo call made yet.  `pc` is where getVideoInfo is ("idle",
\* "awaiting" the command, "resuming" in a microtask, "ended"); `process`
\* is the child ("none", "running", "spawn_failed", "killed", "exited");
\* `first` remembers the first of close, error and timer that happened and
\* `kills` counts the calls of child.kill
NoCommand ==
    [pc |-> "idle", url |-> NoUrl, process |-> "none",
     stdout |-> <<>>, stderr |-> <<>>, timer |-> "none",
     closed |-> FALSE, errored |-> FALSE, kills |-> 0,
     promise |-> Pending, first |-> Pending,
     outcome |-> "none", info |-> NoInfo]

\* no call of a pure helper made yet.  A call is remembered with the
\* helper's name, its arguments (the URL text; the video info and the
\* platform profile) and its results
NoHelperCall ==
    [op |-> "none", text |-> NoText, title |-> <<>>, uploader |-> <<>>,
     platform |-> DEFAULT_PLATFORM, profile |-> detectPlatform(NoUrl),
     supported |-> FALSE, filename |-> <<>>]

\* no handleDownloadVideo call made yet.  A call is remembered with its
\* arguments (the kind of the query: "absent", "empty", "url" or "text";
\* the URL text of a query that is one; the platform preference and the
\* quality, "" when absent), where
\* it is ("idle", "searching", "downloading", "ended"), the downloadVideo
\* call it made (0 for none), how it ended ("returned" or "threw") and the
\* result it returned
NoToolCall ==
    [pc |-> "idle", query |-> "absent",
     text |-> NoText, platform_preference |-> "", quality |-> "",
     call |-> 0, outcome |-> "none", isError |-> FALSE,
     message |-> ""]

\* no ledger call made yet.  A call is remembered with its operation, the
\* id, the additional fields and the retention it was given, whether its read and its write of
\* the document failed, how it ended ("returned" or "threw"), the error it
\* threw, the list it returned and the count it returned
NoCall == [op |-> "none", id |-> 0, add |-> NoData, days |-> 0,
           filters |-> NoFilters,
           readFailed |-> FALSE, writeFailed |-> FALSE,
           outcome |-> "none", error |-> NoError,
           value |-> <<>>, count |-> 0]

Init ==
    /\ calls = [c \in Calls |-> IdleCall]
    /\ child = [c \in Calls |-> NoChild]
    /\ microq = <<>>
    /\ ledger = <<>>
    /\ files = {}
    /\ dirs = {}
    /\ faults = 0
    /\ nextId = 1
    /\ alive = TRUE
    /\ now = 0
    /\ api = NoCall
    /\ cmd = NoCommand
    /\ fn = NoHelperCall
    /\ tool = NoToolCall

(* ------------------ downloader.js: file helpers ------------------------ *)
DotPart == <<".","p","a","r","t">>
DotPartDash == <<".","p","a","r","t","-">>
DotPartFrag == <<".","p","a","r","t","-","F","r","a","g">>
DotYtdl == <<".","y","t","d","l">>
DotF == <<".","f">>

\* path.basename(outputPath, '.mp4')
BaseName(outputPath) ==
    LET n == outputPath.name
    IN IF Len(n) > Len(MP4) /\ SubSeq(n, Len(n) - Len(MP4) + 1, Len(n)) = MP4
       THEN SubSeq(n, 1, Len(n) - Len(MP4))
       ELSE n

\* the filter of cleanupFragments
IsFragment(f, baseName) ==
    \/ StartsWith(f, baseName \o MP4 \o DotPartFrag)
    \/ f = baseName \o MP4 \o DotYtdl
    \/ f = baseName \o MP4 \o DotPart
    \/ StartsWith(f, baseName \o DotF)
    \/ (Includes(f, baseName) /\ Includes(f, DotPartDash))

\* the files left after cleanupFragments(outputPath)
cleanupFragments(outputPath, onDisk) ==
    {f \in onDisk : ~(f.dir = outputPath.dir
                      /\ IsFragment(f.name, BaseName(outputPath)))}

\* getFileSize
getFileSize(filePath, onDisk) ==
    IF filePath \in onDisk THEN "1.00 MB" ELSE "Unknown"

\* what the download process leaves on disk while it runs (--keep-fragments)
PartFile(outputPath) ==
    [dir |-> outputPath.dir, name |-> outputPath.name \o DotPart]
FragFile(outputPath) ==
    [dir |-> outputPath.dir, name |-> outputPath.name \o DotPartFrag \o <<"1">>]

\* a file-system fault may be injected while the budget lasts
CanFault == faults < MaxFaults

(* ------------------ downloader.js: downloadVideo ----------------------- *)
\* BuildPathAndRecord without the existence check of line 63
BuildPathAndRecord_NoExistsCheck(c, cr, q) ==
    LET platform == detectPlatform(cr.url)
        filename == generateFilename([title |-> cr.title,
                                      uploader |-> cr.uploader], platform)
        directory == DownloadDir(platform)
        outputPath == JoinPath(directory, filename)
    IN /\ dirs' = dirs \cup {directory}
       /\ faults' = faults
       /\ microq' = Append(q,
              [Task(c, "rec_push") EXCEPT
                  !.hist = loadDownloadHistory(ledger, FALSE),
                  !.id = nextId])
       /\ nextId' = nextId + 1
       /\ calls' = [calls EXCEPT ![c] =
              [cr EXCEPT !.pc = "recording", !.outputPath = outputPath]]
       /\ UNCHANGED <<child, ledger, files, alive>>

\* lines 52-88: build the path, short-circuit on an existing file, else
\* start saveDownloadRecord (which runs up to its first await).
\* cr is the call's record with videoInfo set, q the microtask queue.
BuildPathAndRecord(c, cr, q) ==
    LET platform == detectPlatform(cr.url)
        filename == generateFilename([title |-> cr.title,
                                      uploader |-> cr.uploader], platform)
        directory == DownloadDir(platform)
        outputPath == JoinPath(directory, filename)
    IN \/ \* ensureDirectoryExists throws: caught at line 122, no downloadId
          /\ directory \notin dirs
          /\ CanFault
          /\ faults' = faults + 1
          /\ calls' = [calls EXCEPT ![c] =
                 [cr EXCEPT !.pc = "returned",
                            !.error = MkdirError,
                            !.result = [kind |-> "failure",
                                        file_path |-> NoPath,
                                        message |-> MkdirError]]]
          /\ microq' = q
          /\ UNCHANGED <<child, ledger, files, dirs, nextId, alive>>
       \/ \* the file is already there: line 63
          /\ outputPath \in files
          /\ dirs' = dirs \cup {directory}
          /\ calls' = [calls EXCEPT ![c] =
                 [cr EXCEPT !.pc = "returned",
                            !.outputPath = outputPath,
                            !.result = [kind |-> "already_exists",
                                        file_path |-> outputPath,
                                        message |-> NoError]]]
          /\ microq' = q
          /\ UNCHANGED <<child, ledger, files, faults, nextId, alive>>
       \/ \* saveDownloadRecord: generateDownloadId, loadDownloadHistory, await
          /\ outputPath \notin files
          /\ dirs' = dirs \cup {directory}
          /\ \E readFails \in BOOLEAN :
               /\ readFails => (CanFault /\ ledger # <<>>)
               /\ faults' = IF readFails THEN faults + 1 ELSE faults
               /\ microq' = Append(q,
                      [Task(c, "rec_push") EXCEPT
                          !.hist = loadDownloadHistory(ledger, readFails),
                          !.id = nextId])
          /\ nextId' = nextId + 1
          /\ calls' = [calls EXCEPT ![c] =
                 [cr EXCEPT !.pc = "recording", !.outputPath = outputPath]]
          /\ UNCHANGED <<child, ledger, files, alive>>

\* lines 28-50: the caller invokes downloadVideo.  With metadata supplied the
\* call runs on to line 88; otherwise it awaits getVideoInfo.
downloadVideo(c, url, metaGiven) ==
    LET cr == [calls[c] EXCEPT
                 !.url = url,
                 !.metaGiven = metaGiven,
                 !.prior = {d \in Calls :
                              /\ calls[d].result.kind = "success"
                              /\ calls[d].url = url
                              /\ calls[d].metaGiven = metaGiven}]
    IN IF metaGiven
       THEN BuildPathAndRecord(c,
                [cr EXCEPT !.title = GivenMetadata(url).title,
                           !.uploader = GivenMetadata(url).uploader],
                microq)
       ELSE /\ calls' = [calls EXCEPT ![c] = [cr EXCEPT !.pc = "metadata"]]
            /\ UNCHANGED <<child, microq, ledger, files, dirs, faults,
                           nextId, alive>>

\* a caller invokes downloadVideo
Start(c) ==
    /\ alive
    /\ calls[c].pc = "idle"
    /\ \A d \in Calls : d < c => calls[d].pc # "idle"
    /\ \E url \in URLs, metaGiven \in BOOLEAN : downloadVideo(c, url, metaGiven)
    /\ UNCHANGED apiVars

\* execCommand settles (lines 360-378): the metadata process closed with
\* code 0, or it failed (spawn error, non-zero code, timeout)
MetaSettle(c) ==
    /\ alive
    /\ microq = <<>>
    /\ calls[c].pc = "metadata"
    /\ \E ok \in BOOLEAN :
         microq' = Append(microq, [Task(c, "meta_hop") EXCEPT !.ok = ok])
    /\ calls' = [calls EXCEPT ![c].pc = "metadata_done"]
    /\ UNCHANGED <<child, ledger, files, dirs, faults, nextId, alive>>
    /\ UNCHANGED apiVars

\* the head of the microtask queue is call c's continuation k
Runs(c, k) ==
    /\ alive
    /\ microq # <<>>
    /\ Head(microq).c = c
    /\ Head(microq).k = k

\* getVideoInfo resumes after execCommand (lines 306-324, or the catch at
\* 326-337) and returns the video info
MetaHop(c) ==
    /\ Runs(c, "meta_hop")
    /\ LET info == IF Head(microq).ok
                   THEN ParseVideoInfo(MetaStdout(calls[c].url))
                   ELSE DefaultVideoInfo
       IN calls' = [calls EXCEPT ![c].title = info.title,
                                 ![c].uploader = info.uploader]
    /\ microq' = Append(Tail(microq), Task(c, "meta_ret"))
    /\ UNCHANGED <<child, ledger, files, dirs, faults, nextId, alive>>
    /\ UNCHANGED apiVars

\* downloadVideo resumes at line 52 with the fetched video info
MetaRet(c) ==
    /\ Runs(c, "meta_ret")
    /\ BuildPathAndRecord(c, calls[c], Tail(microq))
    /\ UNCHANGED apiVars

\* a saveDownloadRecord whose failing write left the record in the document
RecPush_WritesThenThrows(c) ==
    /\ Runs(c, "rec_push")
    /\ LET e == Head(microq)
           rec == NewRecord(e.id, calls[c].url, calls[c].title,
                            calls[c].outputPath)
       IN \/ /\ ledger' = Append(e.hist, rec)
             /\ calls' = [calls EXCEPT ![c].created = @ + 1]
             /\ microq' = Append(Tail(microq),
                                 [Task(c, "rec_saved") EXCEPT !.id = e.id])
             /\ UNCHANGED faults
          \/ /\ CanFault
             /\ faults' = faults + 1
             /\ microq' = Append(Tail(microq),
                                 [Task(c, "rec_throw1") EXCEPT !.err = WriteError])
             /\ ledger' = Append(e.hist, rec)
             /\ UNCHANGED calls
    /\ UNCHANGED <<child, files, dirs, nextId, alive>>
    /\ UNCHANGED apiVars

\* saveDownloadRecord resumes at line 26: push the record, write the file
RecPush(c) ==
    /\ Runs(c, "rec_push")
    /\ LET e == Head(microq)
           rec == NewRecord(e.id, calls[c].url, calls[c].title,
                            calls[c].outputPath)
       IN \/ /\ ledger' = Append(e.hist, rec)
             /\ calls' = [calls EXCEPT ![c].created = @ + 1]
             /\ microq' = Append(Tail(microq),
                                 [Task(c, "rec_saved") EXCEPT !.id = e.id])
             /\ UNCHANGED faults
          \/ \* saveDownloadHistory throws
             /\ CanFault
             /\ faults' = faults + 1
             /\ microq' = Append(Tail(microq),
                                 [Task(c, "rec_throw1") EXCEPT !.err = WriteError])
             /\ UNCHANGED <<calls, ledger>>
    /\ UNCHANGED <<child, files, dirs, nextId, alive>>
    /\ UNCHANGED apiVars

\* saveDownloadRecord resumes at line 29 and returns the id
RecSaved(c) ==
    /\ Runs(c, "rec_saved")
    /\ microq' = Append(Tail(microq),
                        [Task(c, "rec_ret") EXCEPT !.id = Head(microq).id])
    /\ UNCHANGED <<calls, child, ledger, files, dirs, faults, nextId, alive>>
    /\ UNCHANGED apiVars

\* the rejected write surfaces in saveDownloadRecord (line 28), which logs
\* and rethrows (lines 32-35)
RecThrow1(c) ==
    /\ Runs(c, "rec_throw1")
    /\ microq' = Append(Tail(microq),
                        [Task(c, "rec_throw2") EXCEPT !.err = Head(microq).err])
    /\ UNCHANGED <<calls, child, ledger, files, dirs, faults, nextId, alive>>
    /\ UNCHANGED apiVars

\* executeDownload spawns the download process (lines 148-167); the spawn
\* may fail
SpawnChild(c, spawned) ==
    [NoChild EXCEPT !.state = IF spawned THEN "running" ELSE "spawn_failed"]

\* a catch that went on to the download although no record was created
RecThrow2_SpawnsAnyway(c) ==
    /\ Runs(c, "rec_throw2")
    /\ calls' = [calls EXCEPT ![c].pc = "downloading"]
    /\ child' = [child EXCEPT ![c] = SpawnChild(c, TRUE)]
    /\ microq' = Tail(microq)
    /\ UNCHANGED <<ledger, files, dirs, faults, nextId, alive>>
    /\ UNCHANGED apiVars

\* downloadVideo's catch (lines 122-141) with downloadId still null
RecThrow2(c) ==
    /\ Runs(c, "rec_throw2")
    /\ calls' = [calls EXCEPT
                   ![c].pc = "returned",
                   ![c].error = Head(microq).err,
                   ![c].result = [kind |-> "failure", file_path |-> NoPath,
                                  message |-> Head(microq).err]]
    /\ microq' = Tail(microq)
    /\ UNCHANGED <<child, ledger, files, dirs, faults, nextId, alive>>
    /\ UNCHANGED apiVars

\* downloadVideo resumes at line 80 with the id and calls executeDownload
RecRet(c) ==
    /\ Runs(c, "rec_ret")
    /\ calls' = [calls EXCEPT ![c].pc = "downloading",
                              ![c].downloadId = Head(microq).id]
    /\ \E spawned \in BOOLEAN :
         child' = [child EXCEPT ![c] = SpawnChild(c, spawned)]
    /\ microq' = Tail(microq)
    /\ UNCHANGED <<ledger, files, dirs, faults, nextId, alive>>
    /\ UNCHANGED apiVars

(* ------------------ downloader.js: executeDownload --------------------- *)
\* what the 'close' handler resolves with (lines 199-214)
CloseOutcome(code) ==
    IF code = 0
    THEN [kind |-> "success", error |-> NoError]
    ELSE [kind |-> "failure",
          error |-> [text |-> "Download process failed with exit code: ",
                     code |-> CodeStr(code), id |-> 0]]

\* what the 'error' handler resolves with (lines 217-223)
ErrorOutcome(message) ==
    [kind |-> "failure",
     error |-> [text |-> "Process error: ", code |-> message, id |-> 0]]

\* resolve() if a later call could settle the promise again
Resolve_LastWins(current, outcome) == outcome

\* resolve() on the promise of line 148: only the first call settles it
Resolve(current, outcome) ==
    IF current.kind = "none" THEN outcome ELSE current

\* a stdout handler that reports every percentage it reads
Reports_Always(chunk, lastProgress) == chunk # ""

\* the stdout handler reports a chunk's percentage when it has one and it
\* differs from the last one reported (lines 176-179)
Reports(chunk, lastProgress) == chunk # "" /\ chunk # lastProgress

\* the synchronous start of updateDownloadStatus (line 43): the task that
\* resumes it after `await loadDownloadHistory()`
UpdateTask(c, k, downloadId, status, additionalData, readFails) ==
    [Task(c, k) EXCEPT !.hist = loadDownloadHistory(ledger, readFails),
                       !.id = downloadId,
                       !.status = status,
                       !.add = additionalData]

\* a read of the ledger file that may fail
ReadChoice(readFails) ==
    /\ readFails => (CanFault /\ ledger # <<>>)
    /\ faults' = IF readFails THEN faults + 1 ELSE faults

\* `${progress}%` (line 185)
ProgressText(progress) == <<progress, "%">>

\* output.match(/\[download\]\s+(\d+\.?\d*)%/) (line 176) on a chunk of
\* lines, each line given by the percentage it carries ("" for none): the
\* first match
ProgressMatch(lines) ==
    LET hits == {i \in DOMAIN lines : lines[i] # ""}
    IN IF hits = {} THEN ""
       ELSE lines[CHOOSE i \in hits : \A j \in hits : i <= j]

\* the stdout handler on one chunk of lines (lines 172-190)
StdoutData(c, lines) ==
  LET chunk == ProgressMatch(lines)
  IN
    IF Reports(chunk, child[c].lastProgress)
    THEN /\ child' = [child EXCEPT ![c].chunks = @ + 1,
                                   ![c].lastProgress = chunk,
                                   ![c].lines = @ \o lines,
                                   ![c].seen = Append(@, chunk),
                                   ![c].issued = Append(@, chunk)]
         /\ \E readFails \in BOOLEAN :
              /\ ReadChoice(readFails)
              /\ microq' = Append(microq,
                     UpdateTask(c, "prog_apply", calls[c].downloadId,
                                "in_progress",
                                [progress |-> ProgressText(chunk)],
                                readFails))
    ELSE /\ child' = [child EXCEPT ![c].chunks = @ + 1,
                                   ![c].lines = @ \o lines,
                                   ![c].seen = Append(@, chunk)]
         /\ UNCHANGED <<microq, faults>>

\* child.stdout 'data' (lines 172-190); the process has written its part files
ChildStdout(c) ==
    /\ alive
    /\ microq = <<>>
    /\ child[c].state = "running"
    /\ child[c].chunks < MaxChunks
    /\ files' = files \cup {PartFile(calls[c].outputPath),
                            FragFile(calls[c].outputPath)}
    /\ \E chunk \in Chunks : StdoutData(c, <<chunk>>)
    /\ UNCHANGED <<calls, ledger, dirs, nextId, alive>>
    /\ UNCHANGED apiVars

\* child.stderr 'data' (lines 193-196): logged only
ChildStderr(c) ==
    /\ alive
    /\ microq = <<>>
    /\ child[c].state = "running"
    /\ ~child[c].stderr
    /\ child' = [child EXCEPT ![c].stderr = TRUE]
    /\ UNCHANGED <<calls, microq, ledger, files, dirs, faults, nextId, alive>>
    /\ UNCHANGED apiVars

\* the promise of executeDownload is settled with `outcome`; the first
\* settlement wakes downloadVideo two microtasks later
Settle(c, cr, outcome) ==
    /\ calls' = [calls EXCEPT ![c] =
                    [cr EXCEPT !.outcome = Resolve(cr.outcome, outcome)]]
    /\ microq' = IF cr.outcome.kind = "none"
                 THEN Append(microq, Task(c, "dl_hop"))
                 ELSE microq

\* child 'error' (lines 217-223): the spawn failed
ChildError(c) ==
    /\ alive
    /\ microq = <<>>
    /\ child[c].state = "spawn_failed"
    /\ child' = [child EXCEPT ![c].state = "errored",
                              ![c].first = [kind |-> "error", code |-> 0]]
    /\ Settle(c, calls[c], ErrorOutcome("spawn ENOENT"))
    /\ UNCHANGED <<ledger, files, dirs, faults, nextId, alive>>
    /\ UNCHANGED apiVars

\* a 'close' handler that cleaned the fragments up whatever the exit code
ChildClose_CleanupAlways(c) ==
    /\ alive
    /\ microq = <<>>
    /\ child[c].state \in {"running", "errored"}
    /\ \E code \in ExitCodes \cup {SpawnErrno} :
         /\ (code = SpawnErrno) = (child[c].state = "errored")
         /\ child' = [child EXCEPT
                         ![c].state = "closed",
                         ![c].code = code,
                         ![c].first = IF @.kind = "none"
                                      THEN [kind |-> "close", code |-> code]
                                      ELSE @]
         /\ files' = cleanupFragments(calls[c].outputPath, files)
         /\ Settle(c, [calls[c] EXCEPT !.cleanups = @ + 1], CloseOutcome(code))
    /\ UNCHANGED <<ledger, dirs, faults, nextId, alive>>
    /\ UNCHANGED apiVars

\* child 'close' (lines 199-214).  A running process exits with some code;
\* with code 0 it has moved its part file to the output path.  After a
\* failed spawn 'close' follows 'error' with the negative errno.
ChildClose(c) ==
    /\ alive
    /\ microq = <<>>
    /\ child[c].state \in {"running", "errored"}
    /\ \E code \in ExitCodes \cup {SpawnErrno} :
         /\ (code = SpawnErrno) = (child[c].state = "errored")
         /\ child' = [child EXCEPT
                         ![c].state = "closed",
                         ![c].code = code,
                         ![c].first = IF @.kind = "none"
                                      THEN [kind |-> "close", code |-> code]
                                      ELSE @]
         /\ LET out == calls[c].outputPath
                written == (files \ {PartFile(out)}) \cup {out}
            IN IF code = 0
               THEN /\ files' = cleanupFragments(out, written)
                    /\ Settle(c, [calls[c] EXCEPT !.cleanups = @ + 1],
                              CloseOutcome(code))
               ELSE /\ files' = files
                    /\ Settle(c, calls[c], CloseOutcome(code))
    /\ UNCHANGED <<ledger, dirs, faults, nextId, alive>>
    /\ UNCHANGED apiVars

\* the settled promise of line 148 resolves executeDownload's own promise
DlHop(c) ==
    /\ Runs(c, "dl_hop")
    /\ microq' = Append(Tail(microq), Task(c, "dl_ret"))
    /\ UNCHANGED <<calls, child, ledger, files, dirs, faults, nextId, alive>>
    /\ UNCHANGED apiVars

\* the fields of the 'completed' update (lines 101-105)
CompletedData(outputPath, onDisk) ==
    [completed_at |-> TRUE, file_path |-> outputPath,
     file_size |-> getFileSize(outputPath, onDisk)]

\* the fields of the 'failed' update (lines 127-130)
FailedData(error) == [failed_at |-> TRUE, error_message |-> error]

\* downloadVideo resumes at line 99: on success it starts the 'completed'
\* update; otherwise it throws, and the catch starts the 'failed' update
DlRet(c) ==
    /\ Runs(c, "dl_ret")
    /\ LET cr == calls[c]
           ok == cr.outcome.kind = "success"
       IN /\ calls' = [calls EXCEPT ![c].pc = "updating",
                          ![c].wakes = @ + 1,
                          ![c].error = IF ok THEN NoError ELSE cr.outcome.error]
          /\ \E readFails \in BOOLEAN :
               /\ ReadChoice(readFails)
               /\ microq' = Append(Tail(microq),
                     IF ok
                     THEN UpdateTask(c, "upd_apply", cr.downloadId, "completed",
                                     CompletedData(cr.outputPath, files),
                                     readFails)
                     ELSE UpdateTask(c, "upd_apply", cr.downloadId, "failed",
                                     FailedData(cr.outcome.error), readFails))
    /\ UNCHANGED <<child, ledger, files, dirs, nextId, alive>>
    /\ UNCHANGED apiVars

\* updateDownloadStatus resumes at line 44: find the record, merge, write
UpdApply(c) ==
    /\ Runs(c, "upd_apply")
    /\ LET e == Head(microq)
           recordIndex == FindIndex(e.hist, e.id)
           next(k, err) == [Task(c, k) EXCEPT !.id = e.id,
                                              !.status = e.status,
                                              !.err = err]
       IN \/ \* line 47: not found
             /\ recordIndex = 0
             /\ microq' = Append(Tail(microq),
                                 next("upd_throw", NotFoundError(e.id)))
             /\ UNCHANGED <<calls, ledger, faults>>
          \/ /\ recordIndex # 0
             /\ ledger' = ApplyUpdate(e.hist, recordIndex, e.status, e.add)
             /\ calls' = [calls EXCEPT ![c].written = e.status]
             /\ microq' = Append(Tail(microq), next("upd_saved", NoError))
             /\ UNCHANGED faults
          \/ \* saveDownloadHistory throws
             /\ recordIndex # 0
             /\ CanFault
             /\ faults' = faults + 1
             /\ microq' = Append(Tail(microq), next("upd_throw1", WriteError))
             /\ UNCHANGED <<calls, ledger>>
    /\ UNCHANGED <<child, files, dirs, nextId, alive>>
    /\ UNCHANGED apiVars

\* the rejected write surfaces in updateDownloadStatus (line 57), which logs
\* and rethrows (lines 61-64)
UpdThrow1(c) ==
    /\ Runs(c, "upd_throw1")
    /\ microq' = Append(Tail(microq), [Head(microq) EXCEPT !.k = "upd_throw"])
    /\ UNCHANGED <<calls, child, ledger, files, dirs, faults, nextId, alive>>
    /\ UNCHANGED apiVars

\* updateDownloadStatus rejected.  Thrown at line 101 it is caught at line
\* 122, which starts the 'failed' update; thrown at line 127, inside the
\* catch, it rejects downloadVideo's promise.
UpdThrow(c) ==
    /\ Runs(c, "upd_throw")
    /\ LET e == Head(microq)
       IN IF e.status = "completed"
          THEN /\ calls' = [calls EXCEPT ![c].error = e.err]
               /\ \E readFails \in BOOLEAN :
                    /\ ReadChoice(readFails)
                    /\ microq' = Append(Tail(microq),
                          UpdateTask(c, "upd_apply", e.id, "failed",
                                     FailedData(e.err), readFails))
          ELSE /\ calls' = [calls EXCEPT
                              ![c].pc = "rejected",
                              ![c].result = [kind |-> "rejected",
                                             file_path |-> NoPath,
                                             message |-> e.err]]
               /\ microq' = Tail(microq)
               /\ UNCHANGED faults
    /\ UNCHANGED <<child, ledger, files, dirs, nextId, alive>>
    /\ UNCHANGED apiVars

\* updateDownloadStatus resumes at line 58 and returns the record
UpdSaved(c) ==
    /\ Runs(c, "upd_saved")
    /\ microq' = Append(Tail(microq), [Head(microq) EXCEPT !.k = "upd_ret"])
    /\ UNCHANGED <<calls, child, ledger, files, dirs, faults, nextId, alive>>
    /\ UNCHANGED apiVars

\* downloadVideo returns: lines 107-117 after 'completed', lines 133-140
\* after 'failed'
UpdRet(c) ==
    /\ Runs(c, "upd_ret")
    /\ calls' = [calls EXCEPT
                   ![c].pc = "returned",
                   ![c].result =
                       IF Head(microq).status = "completed"
                       THEN [kind |-> "success",
                             file_path |-> calls[c].outputPath,
                             message |-> NoError]
                       ELSE [kind |-> "failure", file_path |-> NoPath,
                             message |-> calls[c].error]]
    /\ microq' = Tail(microq)
    /\ UNCHANGED <<child, ledger, files, dirs, faults, nextId, alive>>
    /\ UNCHANGED apiVars

\* a progress update whose rejection ended the job: the download process is
\* killed and downloadVideo is never resumed
ProgApply_Aborting(c) ==
    /\ Runs(c, "prog_apply")
    /\ LET e == Head(microq)
           recordIndex == FindIndex(e.hist, e.id)
           aborted == [child EXCEPT ![c].progFailed = TRUE,
                                    ![c].state = "closed"]
       IN \/ /\ recordIndex = 0
             /\ child' = aborted
             /\ UNCHANGED <<ledger, faults>>
          \/ /\ recordIndex # 0
             /\ ledger' = ApplyUpdate(e.hist, recordIndex, e.status, e.add)
             /\ UNCHANGED <<child, faults>>
          \/ /\ recordIndex # 0
             /\ CanFault
             /\ faults' = faults + 1
             /\ child' = aborted
             /\ UNCHANGED ledger
    /\ microq' = Tail(microq)
    /\ UNCHANGED <<calls, files, dirs, nextId, alive>>
    /\ UNCHANGED apiVars

\* the progress update of line 185 resumes at line 44; whatever it throws is
\* logged by the .catch of line 186
ProgApply(c) ==
    /\ Runs(c, "prog_apply")
    /\ LET e == Head(microq)
           recordIndex == FindIndex(e.hist, e.id)
       IN \/ /\ recordIndex = 0
             /\ child' = [child EXCEPT ![c].progFailed = TRUE]
             /\ UNCHANGED <<ledger, faults>>
          \/ /\ recordIndex # 0
             /\ ledger' = ApplyUpdate(e.hist, recordIndex, e.status, e.add)
             /\ UNCHANGED <<child, faults>>
          \/ /\ recordIndex # 0
             /\ CanFault
             /\ faults' = faults + 1
             /\ child' = [child EXCEPT ![c].progFailed = TRUE]
             /\ UNCHANGED ledger
    /\ microq' = Tail(microq)
    /\ UNCHANGED <<calls, files, dirs, nextId, alive>>
    /\ UNCHANGED apiVars

(* ------------------ the server's signal handlers ----------------------- *)
\* SIGINT / SIGTERM: this.close(); process.exit(0).  The process ends: no
\* continuation or handler runs again; the download processes and the
\* ledger file are left as they are.
Shutdown ==
    /\ alive
    /\ microq = <<>>
    /\ \E c \in Calls : calls[c].pc # "idle"
    /\ alive' = FALSE
    /\ UNCHANGED <<calls, child, microq, ledger, files, dirs, faults, nextId>>
    /\ UNCHANGED apiVars

Next ==
    \/ \E c \in Calls : Start(c)
    \/ \E c \in Calls : MetaSettle(c)
    \/ \E c \in Calls : MetaHop(c)
    \/ \E c \in Calls : MetaRet(c)
    \/ \E c \in Calls : RecPush(c)
    \/ \E c \in Calls : RecSaved(c)
    \/ \E c \in Calls : RecThrow1(c)
    \/ \E c \in Calls : RecThrow2(c)
    \/ \E c \in Calls : RecRet(c)
    \/ \E c \in Calls : ChildStdout(c)
    \/ \E c \in Calls : ChildStderr(c)
    \/ \E c \in Calls : ChildError(c)
    \/ \E c \in Calls : ChildClose(c)
    \/ \E c \in Calls : DlHop(c)
    \/ \E c \in Calls : DlRet(c)
    \/ \E c \in Calls : UpdApply(c)
    \/ \E c \in Calls : UpdThrow1(c)
    \/ \E c \in Calls : UpdThrow(c)
    \/ \E c \in Calls : UpdSaved(c)
    \/ \E c \in Calls : UpdRet(c)
    \/ \E c \in Calls : ProgApply(c)
    \/ Shutdown

Spec == Init /\ [][Next]_vars

(* ------------- the ledger called directly (download-manager.js) -------- *)
\* the partial records a caller hands to saveDownloadRecord; the second
\* carries an id of its own
PartialRecords ==
    {[title |-> <<"a">>, status |-> "in_progress"],
     [title |-> <<"b">>, status |-> "in_progress", id |-> 1]}
\* the additional data a caller hands to updateDownloadStatus
AdditionalData == {NoData, [id |-> 2]}
\* the ids a caller names; MaxIds + 1 is never assigned
ApiIds == 1..(MaxIds + 1)
FilterChoices ==
    {NoFilters,
     [status |-> "completed", platform |-> "", limit |-> 0],
     [status |-> "all", platform |-> "all", limit |-> 1]}
RetentionDays == {10, 30}
DaySteps == {10, 35}

\* the ledger file, read for one call; an unreadable file is not empty
ApiRead(readFails) == readFails => ledger # <<>>

Called(op, readFails) ==
    [NoCall EXCEPT !.op = op, !.readFailed = readFails, !.outcome = "returned"]

Threw(call, error) ==
    [call EXCEPT !.outcome = "threw", !.error = error,
                 !.writeFailed = (error = WriteError)]

\* saveDownloadRecord(record) (lines 16-36)
ApiSave ==
    /\ nextId <= MaxIds
    /\ \E record \in PartialRecords, readFails \in BOOLEAN,
          writeFails \in BOOLEAN :
         LET history == loadDownloadHistory(ledger, readFails)
             call == [Called("save", readFails) EXCEPT !.id = nextId]
         IN /\ ApiRead(readFails)
            /\ IF writeFails
               THEN /\ api' = Threw(call, WriteError)
                    /\ UNCHANGED ledger
               ELSE /\ api' = call
                    /\ ledger' = Append(history,
                                        BuildRecord(nextId, record, now))
    /\ nextId' = nextId + 1
    /\ UNCHANGED <<cmd, fn, tool>>
    /\ UNCHANGED <<calls, child, microq, files, dirs, faults, alive, now>>

\* updateDownloadStatus(downloadId, status, additionalData) (lines 41-65)
ApiUpdate ==
    /\ \E downloadId \in ApiIds, additionalData \in AdditionalData,
          readFails \in BOOLEAN, writeFails \in BOOLEAN :
         LET history == loadDownloadHistory(ledger, readFails)
             recordIndex == FindIndex(history, downloadId)
             call == [Called("update", readFails) EXCEPT
                         !.id = downloadId, !.add = additionalData]
             updated == ApplyUpdate(history, recordIndex, "completed",
                                    additionalData)
         IN /\ ApiRead(readFails)
            /\ IF recordIndex = 0
               THEN /\ api' = Threw(call, NotFoundError(downloadId))
                    /\ UNCHANGED ledger
               ELSE IF writeFails
               THEN /\ api' = Threw(call, WriteError)
                    /\ UNCHANGED ledger
               ELSE /\ api' = [call EXCEPT !.value = <<updated[recordIndex]>>]
                    /\ ledger' = updated
    /\ UNCHANGED <<cmd, fn, tool>>
    /\ UNCHANGED <<calls, child, microq, files, dirs, faults, nextId, alive,
                   now>>

\* deleteDownloadRecord(downloadId) (lines 125-142)
ApiDelete ==
    /\ \E downloadId \in ApiIds, readFails \in BOOLEAN,
          writeFails \in BOOLEAN :
         LET history == loadDownloadHistory(ledger, readFails)
             filteredHistory == WithoutRecord(history, downloadId)
             call == [Called("delete", readFails) EXCEPT !.id = downloadId]
         IN /\ ApiRead(readFails)
            /\ IF Len(filteredHistory) = Len(history)
               THEN /\ api' = Threw(call, NotFoundError(downloadId))
                    /\ UNCHANGED ledger
               ELSE IF writeFails
               THEN /\ api' = Threw(call, WriteError)
                    /\ UNCHANGED ledger
               ELSE /\ api' = call
                    /\ ledger' = filteredHistory
    /\ UNCHANGED <<cmd, fn, tool>>
    /\ UNCHANGED <<calls, child, microq, files, dirs, faults, nextId, alive,
                   now>>

\* cleanupOldRecords(daysToKeep) (lines 147-170); a failing write is caught
\* and 0 is returned
ApiCleanup ==
    /\ \E daysToKeep \in RetentionDays, readFails \in BOOLEAN,
          writeFails \in BOOLEAN :
         LET history == loadDownloadHistory(ledger, readFails)
             filteredHistory == NewerThanCutoff(history, daysToKeep, now)
             deletedCount == Len(history) - Len(filteredHistory)
             call == [Called("cleanup", readFails) EXCEPT !.days = daysToKeep]
         IN /\ ApiRead(readFails)
            /\ IF deletedCount > 0 /\ writeFails
               THEN /\ api' = [call EXCEPT !.writeFailed = TRUE]
                    /\ UNCHANGED ledger
               ELSE IF deletedCount > 0
               THEN /\ api' = [call EXCEPT !.count = deletedCount]
                    /\ ledger' = filteredHistory
               ELSE /\ api' = call
                    /\ UNCHANGED ledger
    /\ UNCHANGED <<cmd, fn, tool>>
    /\ UNCHANGED <<calls, child, microq, files, dirs, faults, nextId, alive,
                   now>>

\* getDownloadHistory(filters) (lines 70-107)
ApiList ==
    /\ \E filters \in FilterChoices, readFails \in BOOLEAN :
         /\ ApiRead(readFails)
         /\ api' = [Called("list", readFails) EXCEPT
                       !.filters = filters,
                       !.value = getDownloadHistory(
                                     loadDownloadHistory(ledger, readFails),
                                     filters)]
    /\ UNCHANGED <<cmd, fn, tool>>
    /\ UNCHANGED <<calls, child, microq, ledger, files, dirs, faults, nextId,
                   alive, now>>

\* getCurrentDownloads() (lines 112-120)
ApiCurrent ==
    /\ \E readFails \in BOOLEAN :
         /\ ApiRead(readFails)
         /\ api' = [Called("current", readFails) EXCEPT
                       !.value = getCurrentDownloads(
                                     loadDownloadHistory(ledger, readFails))]
    /\ UNCHANGED <<cmd, fn, tool>>
    /\ UNCHANGED <<calls, child, microq, ledger, files, dirs, faults, nextId,
                   alive, now>>

\* days pass between two calls
Tick ==
    /\ \E step \in DaySteps :
         /\ now + step <= MaxDay
         /\ now' = now + step
    /\ UNCHANGED <<cmd, fn, tool>>
    /\ UNCHANGED <<calls, child, microq, ledger, files, dirs, faults, nextId,
                   alive, api>>

LedgerNext ==
    \/ ApiSave
    \/ ApiUpdate
    \/ ApiDelete
    \/ ApiCleanup
    \/ ApiList
    \/ ApiCurrent
    \/ Tick

LedgerSpec == Init /\ [][LedgerNext]_vars

(* -------------- video-info.js: getVideoInfo, execCommand --------------- *)
\* what the metadata process prints, line by line: a line of text, a
\* line of white space or an empty line
OutputLines == {<<"a">>, <<" ">>, <<>>}
\* what it prints on stderr
ErrorLines == {<<"E">>}
\* how spawn goes: a running child, a child whose spawn fails (ENOENT), or
\* a synchronous throw
SpawnWays == {"running", "spawn_failed", "throws"}
\* the exit codes 'close' reports for a child that ran
CommandCodes == {"0", "1"}
CommandTimeout == "Command timeout"
CommandFailed == "Command failed with code "
SpawnFailed == "spawn ENOENT"
SpawnThrew == "spawn threw"

\* stdout.trim() (line 369) on the lines of the output: the blank lines at
\* its start and at its end go
TrimOutput(stdout) ==
    LET solid == {i \in DOMAIN stdout : Trim(stdout[i]) # <<>>}
    IN IF solid = {} THEN <<>>
       ELSE SubSeq(stdout, CHOOSE i \in solid : \A j \in solid : i <= j,
                           CHOOSE i \in solid : \A j \in solid : i >= j)

\* a resolve or reject that settled the promise again
SettleCommand_LastWins(promise, settlement) == settlement

\* resolve or reject on the promise of line 344: the first call settles it
SettleCommand(promise, settlement) ==
    IF promise.kind = "pending" THEN settlement ELSE promise

\* the command after one of its handlers called resolve or reject: the
\* first settlement queues getVideoInfo's continuation
Settled(command, settlement) ==
    [command EXCEPT
        !.promise = SettleCommand(command.promise, settlement),
        !.first = IF command.first.kind = "pending" THEN settlement
                  ELSE command.first,
        !.pc = IF command.promise.kind = "pending" /\ command.pc = "awaiting"
               THEN "resuming" ELSE command.pc]

\* the event loop delivers an event of the child or the timer: no
\* continuation of getVideoInfo is waiting in the microtask queue
Delivers == cmd.pc \in {"awaiting", "ended"}

\* getVideoInfo(url) is called: execCommand spawns the child and arms the
\* timer (lines 292-306, 343-363); a spawn that throws rejects the promise
\* in its executor
InfoStart ==
    /\ cmd.pc = "idle"
    /\ \E url \in URLs, way \in SpawnWays :
         cmd' = IF way = "throws"
                THEN [cmd EXCEPT !.url = url,
                                 !.pc = "resuming",
                                 !.promise = Rejected(SpawnThrew, "", <<>>),
                                 !.first = Rejected(SpawnThrew, "", <<>>)]
                ELSE [cmd EXCEPT !.url = url,
                                 !.pc = "awaiting",
                                 !.process = way,
                                 !.timer = "armed"]
    /\ UNCHANGED <<callVars, now, api, fn, tool>>

\* stdout 'data' (lines 352-354)
CmdStdout ==
    /\ Delivers
    /\ cmd.process \in {"running", "killed"}
    /\ ~cmd.closed
    /\ Len(cmd.stdout) < MaxOutput
    /\ \E line \in OutputLines :
         cmd' = [cmd EXCEPT !.stdout = Append(cmd.stdout, line)]
    /\ UNCHANGED <<callVars, now, api, fn, tool>>

\* stderr 'data' (lines 356-358)
CmdStderr ==
    /\ Delivers
    /\ cmd.process \in {"running", "killed"}
    /\ ~cmd.closed
    /\ cmd.stderr = <<>>
    /\ \E line \in ErrorLines :
         cmd' = [cmd EXCEPT !.stderr = Append(cmd.stderr, line)]
    /\ UNCHANGED <<callVars, now, api, fn, tool>>

\* the timer fires (lines 360-363): the child is killed and the promise
\* rejected
CmdTimeout ==
    /\ Delivers
    /\ cmd.timer = "armed"
    /\ LET killed == [cmd EXCEPT
                         !.timer = "fired",
                         !.kills = cmd.kills + 1,
                         !.process = IF cmd.process = "running"
                                     THEN "killed" ELSE cmd.process]
       IN cmd' = Settled(killed, Rejected(CommandTimeout, "", <<>>))
    /\ UNCHANGED <<callVars, now, api, fn, tool>>

\* child 'close' (lines 365-373): the code is the child's exit code, null
\* for a killed child, the errno for a failed spawn
CmdClose ==
    /\ Delivers
    /\ cmd.process # "none"
    /\ ~cmd.closed
    /\ \E code \in CASE cmd.process = "killed" -> {"null"}
                     [] cmd.process = "spawn_failed" -> {CodeStr(SpawnErrno)}
                     [] OTHER -> CommandCodes :
         LET closed == [cmd EXCEPT
                           !.closed = TRUE,
                           !.process = IF cmd.process = "running"
                                       THEN "exited" ELSE cmd.process,
                           !.timer = IF cmd.timer = "armed"
                                     THEN "cleared" ELSE cmd.timer]
         IN cmd' = Settled(closed,
                           IF code = "0"
                           THEN Resolved(TrimOutput(cmd.stdout))
                           ELSE Rejected(CommandFailed, code, cmd.stderr))
    /\ UNCHANGED <<callVars, now, api, fn, tool>>

\* child 'error' (lines 375-378)
CmdError ==
    /\ Delivers
    /\ cmd.process # "none"
    /\ ~cmd.errored
    /\ LET errored == [cmd EXCEPT
                          !.errored = TRUE,
                          !.timer = IF cmd.timer = "armed"
                                    THEN "cleared" ELSE cmd.timer]
       IN cmd' = Settled(errored, Rejected(SpawnFailed, "", <<>>))
    /\ UNCHANGED <<callVars, now, api, fn, tool>>

\* getVideoInfo resumes after `await execCommand` (lines 306-337)
InfoHop ==
    /\ cmd.pc = "resuming"
    /\ LET result == getVideoInfo(cmd.promise, cmd.url)
       IN cmd' = [cmd EXCEPT !.pc = "ended",
                             !.outcome = result.outcome,
                             !.info = result.info]
    /\ UNCHANGED <<callVars, now, api, fn, tool>>

InfoNext ==
    \/ InfoStart
    \/ CmdStdout
    \/ CmdStderr
    \/ CmdTimeout
    \/ CmdClose
    \/ CmdError
    \/ InfoHop

InfoSpec == Init /\ [][InfoNext]_vars

(* ---------- the pure helpers called directly (platforms.js, ---------- *)
(* ---------- download-manager.js: generateFilename) -------------------- *)
\* URL texts: with and without a scheme, with and without "www."; the
\* hosts are the six domains, a subdomain, a host that holds a domain
\* inside, a host that holds two domains, and a host that holds none
UrlTexts ==
    [scheme : {"http", "https", ""},
     www : BOOLEAN,
     host : {PLATFORM_CONFIG[i].domain : i \in DOMAIN PLATFORM_CONFIG}
              \cup {<<"m", ".">> \o PLATFORM_CONFIG[1].domain,
                    <<"n", "o", "t">> \o PLATFORM_CONFIG[5].domain,
                    PLATFORM_CONFIG[3].domain \o <<".">>
                        \o PLATFORM_CONFIG[1].domain,
                    ExampleCom}]

\* video infos: the title absent, short, with unsafe characters, or long,
\* in one-byte and in three-byte characters; the uploader absent, short or
\* long
VideoInfos ==
    LET Repeat(ch, n) == [i \in 1..n |-> ch]
    IN [title : {<<>>, <<"a", "/", "b">>}
                  \cup {Repeat(ch, n) : ch \in {"a", "U7AD9"},
                                        n \in {1, 100, 250}},
        uploader : {<<>>, <<"u">>, Repeat("u", 100)}]

\* the platform profiles
Profiles ==
    {DEFAULT_PLATFORM}
        \cup {[name |-> PLATFORM_CONFIG[i].name,
               directory |-> PLATFORM_CONFIG[i].directory,
               prefix |-> PLATFORM_CONFIG[i].prefix] :
                  i \in DOMAIN PLATFORM_CONFIG}

\* detectPlatform(text) and isSupportedPlatform(text) are called
DetectPlatform ==
    /\ \E text \in UrlTexts :
         fn' = [NoHelperCall EXCEPT
                   !.op = "detectPlatform",
                   !.text = text,
                   !.profile = detectPlatform(ParseURL(text)),
                   !.supported = isSupportedPlatform(ParseURL(text))]
    /\ UNCHANGED <<callVars, now, api, cmd, tool>>

\* generateFilename(videoInfo, platform) is called
GenerateFilename ==
    /\ \E videoInfo \in VideoInfos, platform \in Profiles :
         fn' = [NoHelperCall EXCEPT
                   !.op = "generateFilename",
                   !.title = videoInfo.title,
                   !.uploader = videoInfo.uploader,
                   !.platform = platform,
                   !.filename = generateFilename(videoInfo, platform)]
    /\ UNCHANGED <<callVars, now, api, cmd, tool>>

HelperNext == DetectPlatform \/ GenerateFilename

HelperSpec == Init /\ [][HelperNext]_vars

(* ------------- the download_video tool (tools/download-video.js) ------- *)
\* DownloadVideoArgsSchema.parse(args) succeeds (lines 14-20): the query is
\* a string of at least one character, the platform preference and the
\* quality are absent or one of the enumerated values
DownloadVideoArgsSchema(args) ==
    /\ args.query \in {"url", "text"}
    /\ args.platform_preference \in {"", "youtube", "bilibili", "any"}
    /\ args.quality \in {"", "best", "worst", "720p", "1080p", "480p", "360p"}

\* utils/validators.js lines 10-26: the input starts with http:// or
\* https://, an optional "www." and one of the listed domains.  (The last
\* pattern, a link that ends in a video file extension, matches none of the
\* texts used here: they carry no path.)
isDirectURL(args) ==
    /\ args.query = "url"
    /\ args.text.scheme \in {"http", "https"}
    /\ \E i \in DOMAIN PLATFORM_CONFIG :
         StartsWith(args.text.host, PLATFORM_CONFIG[i].domain)

\* the arguments a client sends: the query absent, empty, a URL text or
\* words; the platform preference and the quality absent, valid or invalid
ToolArgs ==
    {[NoToolCall EXCEPT !.query = query, !.text = text,
                        !.platform_preference = preference,
                        !.quality = quality] :
        query \in {"absent", "empty", "text"}, text \in {NoText},
        preference \in {"", "bilibili", "invalid_platform"},
        quality \in {"", "720p", "invalid_quality"}}
    \cup
    {[NoToolCall EXCEPT !.query = "url", !.text = text, !.quality = quality] :
        text \in [scheme : {"https", ""}, www : BOOLEAN,
                  host : {PLATFORM_CONFIG[1].domain, ExampleCom}],
        quality \in {"", "720p", "invalid_quality"}}

\* lines 75-90, 137-145: handleDownloadVideo is called.  The ZodError of a
\* failed parse is caught at line 175 and returned as a result (lines
\* 178-186).  A direct URL goes to downloadVideo at once, without metadata;
\* any other query is searched for (line 96).
ToolCall ==
    /\ alive
    /\ tool.pc = "idle"
    /\ \E args \in ToolArgs :
         IF ~DownloadVideoArgsSchema(args)
         THEN /\ tool' = [args EXCEPT !.pc = "ended",
                                      !.outcome = "returned",
                                      !.isError = TRUE,
                                      !.message = "validation"]
              /\ UNCHANGED callVars
         ELSE IF isDirectURL(args)
         THEN /\ tool' = [args EXCEPT !.pc = "downloading", !.call = 1]
              /\ downloadVideo(1, ParseURL(args.text), FALSE)
         ELSE /\ tool' = [args EXCEPT !.pc = "searching"]
              /\ UNCHANGED callVars
    /\ UNCHANGED <<now, api, cmd, fn>>

\* lines 96-130, 137-145: searchAndSelectBest settles.  It found nothing
\* (line 98), it threw (line 120), or its best result, with or without
\* metadata, goes to downloadVideo.
ToolSearched ==
    /\ tool.pc = "searching"
    /\ \/ /\ tool' = [tool EXCEPT !.pc = "ended", !.outcome = "returned",
                                  !.isError = FALSE, !.message = "not_found"]
          /\ UNCHANGED callVars
       \/ /\ tool' = [tool EXCEPT !.pc = "ended", !.outcome = "returned",
                                  !.isError = TRUE,
                                  !.message = "search_failed"]
          /\ UNCHANGED callVars
       \/ /\ alive
          /\ tool' = [tool EXCEPT !.pc = "downloading", !.call = 1]
          /\ \E url \in URLs, metaGiven \in BOOLEAN :
               downloadVideo(1, url, metaGiven)
    /\ UNCHANGED <<now, api, cmd, fn>>

\* lines 145-172, 187-195: downloadVideo settled.  Its result is reported
\* as a success or as a failure; its rejection is caught at line 175.
ToolReturn ==
    /\ tool.pc = "downloading"
    /\ calls[tool.call].pc \in {"returned", "rejected"}
    /\ LET kind == calls[tool.call].result.kind
       IN tool' = [tool EXCEPT
                      !.pc = "ended",
                      !.outcome = "returned",
                      !.isError = kind \notin {"success", "already_exists"},
                      !.message = CASE kind = "rejected" -> "tool_failed"
                                    [] kind = "failure" -> "download_failed"
                                    [] OTHER -> "success"]
    /\ UNCHANGED <<callVars, now, api, cmd, fn>>

\* the tool and the job it started
ToolNext ==
    \/ ToolCall
    \/ ToolSearched
    \/ ToolReturn
    \/ \E c \in Calls : MetaSettle(c)
    \/ \E c \in Calls : MetaHop(c)
    \/ \E c \in Calls : MetaRet(c)
    \/ \E c \in Calls : RecPush(c)
    \/ \E c \in Calls : RecSaved(c)
    \/ \E c \in Calls : RecThrow1(c)
    \/ \E c \in Calls : RecThrow2(c)
    \/ \E c \in Calls : RecRet(c)
    \/ \E c \in Calls : ChildStdout(c)
    \/ \E c \in Calls : ChildStderr(c)
    \/ \E c \in Calls : ChildError(c)
    \/ \E c \in Calls : ChildClose(c)
    \/ \E c \in Calls : DlHop(c)
    \/ \E c \in Calls : DlRet(c)
    \/ \E c \in Calls : UpdApply(c)
    \/ \E c \in Calls : UpdThrow1(c)
    \/ \E c \in Calls : UpdThrow(c)
    \/ \E c \in Calls : UpdSaved(c)
    \/ \E c \in Calls : UpdRet(c)
    \/ \E c \in Calls : ProgApply(c)
    \/ Shutdown

ToolSpec == Init /\ [][ToolNext]_vars

(* ------------- one job's stdout stream (lines 169-190) ----------------- *)
\* call 1, started with metadata for URL1, has recorded its job and spawned
\* its download process (line 165)
StreamCall ==
    LET platform == detectPlatform(URL1)
        info == GivenMetadata(URL1)
    IN [IdleCall EXCEPT
           !.pc = "downloading",
           !.url = URL1,
           !.metaGiven = TRUE,
           !.title = info.title,
           !.uploader = info.uploader,
           !.outputPath = JoinPath(DownloadDir(platform),
                                   generateFilename(info, platform)),
           !.downloadId = 1,
           !.created = 1]

StreamInit ==
    /\ now = 0
    /\ api = NoCall
    /\ cmd = NoCommand
    /\ fn = NoHelperCall
    /\ tool = NoToolCall
    /\ calls = [c \in Calls |-> IF c = 1 THEN StreamCall ELSE IdleCall]
    /\ child = [c \in Calls |-> IF c = 1 THEN SpawnChild(1, TRUE) ELSE NoChild]
    /\ microq = <<>>
    /\ ledger = <<NewRecord(1, URL1, StreamCall.title, StreamCall.outputPath)>>
    /\ files = {}
    /\ dirs = {StreamCall.outputPath.dir}
    /\ faults = 0
    /\ nextId = 2
    /\ alive = TRUE

\* child.stdout 'data' for a chunk of the stream
StreamChunk ==
    /\ microq = <<>>
    /\ child[1].state = "running"
    /\ child[1].chunks < MaxStream
    /\ files' = files \cup {PartFile(calls[1].outputPath),
                            FragFile(calls[1].outputPath)}
    /\ \E chunk \in StreamChunks : StdoutData(1, <<chunk>>)
    /\ UNCHANGED <<calls, ledger, dirs, nextId, alive>>
    /\ UNCHANGED apiVars

\* child.stdout 'data' for a chunk that holds two lines of the stream
StreamLines ==
    /\ microq = <<>>
    /\ child[1].state = "running"
    /\ child[1].chunks < MaxStream
    /\ files' = files \cup {PartFile(calls[1].outputPath),
                            FragFile(calls[1].outputPath)}
    /\ \E lines \in {<<"10", "25">>, <<"", "99">>} : StdoutData(1, lines)
    /\ UNCHANGED <<calls, ledger, dirs, nextId, alive>>
    /\ UNCHANGED apiVars

\* the progress update issued for a chunk resumes
StreamUpdate == ProgApply(1)

StreamNext == StreamChunk \/ StreamLines \/ StreamUpdate

StreamSpec == StreamInit /\ [][StreamNext]_vars

(* ============================ claims =================================== *)
\* the ledger record with a given id, when there is one
HasRecord(downloadId) == \E i \in DOMAIN ledger : ledger[i].id = downloadId
RecordOf(downloadId) == ledger[FindIndex(ledger, downloadId)]

\* C1: when downloadVideo reaches the existence check (line 63) and the
\* computed output path is on disk, that step returns a success result with
\* status 'already_exists', leaves the ledger document unchanged, generates
\* no download id, queues no ledger operation and spawns no process.
C1_AlreadyExistsShortCircuit ==
    [][\A c \in Calls :
         ( /\ calls[c].pc \in {"idle", "metadata_done"}
           /\ calls'[c].pc \in {"returned", "recording"}
           /\ calls'[c].outputPath \in files )
         => ( /\ calls'[c].pc = "returned"
              /\ calls'[c].result.kind = "already_exists"
              /\ calls'[c].result.file_path = calls'[c].outputPath
              /\ calls'[c].downloadId = 0
              /\ ledger' = ledger
              /\ nextId' = nextId
              /\ child' = child
              /\ \A i \in DOMAIN microq' : microq'[i].c # c )]_vars

\* a call has short-circuited on an existing file
C1_Witness ==
    \E c \in Calls : /\ calls[c].result.kind = "already_exists"
                     /\ calls[c].outputPath \in files
                     /\ ledger # <<>>

\* the calls that have ended, by return or by rejection
Ended(c) == calls[c].pc \in {"returned", "rejected"}

\* C2: idempotence: a downloadVideo call made with the arguments of an
\* earlier call that returned success returns 'already_exists' and creates
\* no second ledger record (here with no storage failure at all).
C2_Idempotent ==
    \A c \in Calls :
        (calls[c].prior # {} /\ faults = 0) =>
            /\ calls[c].downloadId = 0
            /\ calls[c].pc # "downloading"
            /\ Ended(c) => calls[c].result.kind = "already_exists"

\* C3: for every job whose record was created, when the download process
\* fails or an exception occurs afterwards, the call ends with the record at
\* 'failed', carrying failed_at and the failure's message, and with a
\* returned failure result.
C3_FailureRecorded ==
    \A c \in Calls :
        ( /\ calls[c].downloadId # 0
          /\ Ended(c)
          /\ calls[c].result.kind # "success" ) =>
            /\ calls[c].result.kind = "failure"
            /\ calls[c].result.message = calls[c].error
            /\ HasRecord(calls[c].downloadId)
            /\ RecordOf(calls[c].downloadId).status = "failed"
            /\ RecordOf(calls[c].downloadId).failed_at
            /\ RecordOf(calls[c].downloadId).error_message = calls[c].error

\* C4: the promise downloadVideo returns is never rejected.
C4_NeverRejects == \A c \in Calls : calls[c].pc # "rejected"

\* no continuation is pending, no download process is alive or has an event
\* to deliver, and no call is under way
Quiescent ==
    /\ microq = <<>>
    /\ \A c \in Calls : /\ calls[c].pc \in {"idle", "returned", "rejected"}
                        /\ child[c].state \in {"none", "closed"}

\* C5: no job is left stuck: in a quiescent state of the running server the
\* ledger holds no record with status 'in_progress'.
C5_NoStuckJob ==
    (alive /\ Quiescent) =>
        \A i \in DOMAIN ledger : ledger[i].status # "in_progress"

\* C6: status is monotonic: no ledger write puts a record that is
\* 'completed' or 'failed' back to 'in_progress'.
C6_TerminalStatusKept ==
    [][\A i \in DOMAIN ledger :
         ledger[i].status \in {"completed", "failed"} =>
             \A j \in DOMAIN ledger' :
                 ledger'[j].id = ledger[i].id =>
                     ledger'[j].status # "in_progress"]_vars

\* C7: no lost update: with every read and write of the ledger file
\* succeeding, the ledger holds the record of every saveDownloadRecord that
\* returned, with the status of the last terminal update that call wrote.
C7_NoLostUpdate ==
    faults = 0 =>
        \A c \in Calls :
            calls[c].downloadId # 0 =>
                /\ HasRecord(calls[c].downloadId)
                /\ (Ended(c) /\ calls[c].written # "none") =>
                       RecordOf(calls[c].downloadId).status = calls[c].written

\* C8: an external signal that stops the server while a download runs
\* terminates the download process and drives the job's record to a
\* terminal state, so that no job stays 'in_progress'.
C8_CancelTerminates ==
    ~alive =>
        /\ \A c \in Calls : child[c].state # "running"
        /\ \A i \in DOMAIN ledger : ledger[i].status # "in_progress"

\* C9: when the download process succeeds (with every read and write of the
\* ledger file succeeding), the call ends with the record at 'completed',
\* carrying completed_at, the file size and file_path equal to the output
\* path computed before recording, and returns success with that path.
C9_SuccessRecorded ==
    \A c \in Calls :
        ( /\ calls[c].outcome.kind = "success"
          /\ Ended(c)
          /\ faults = 0 ) =>
            /\ calls[c].result.kind = "success"
            /\ calls[c].result.file_path = calls[c].outputPath
            /\ HasRecord(calls[c].downloadId)
            /\ RecordOf(calls[c].downloadId).status = "completed"
            /\ RecordOf(calls[c].downloadId).completed_at
            /\ RecordOf(calls[c].downloadId).file_path = calls[c].outputPath
            /\ RecordOf(calls[c].downloadId).file_size =
                   getFileSize(calls[c].outputPath, files)

C11_CleanupOnceOnSuccess ==
    \A c \in Calls :
        /\ calls[c].cleanups <= 1
        /\ calls[c].cleanups = 1 <=>
               (child[c].state = "closed" /\ child[c].code = 0)
        /\ calls[c].outcome.kind = "success" => calls[c].cleanups = 1
        /\ calls[c].outcome.kind = "failure" => calls[c].cleanups = 0
        /\ calls[c].written = "completed" => calls[c].cleanups = 1
        /\ calls[c].wakes = 1 =>
               calls[c].cleanups = (IF calls[c].outcome.kind = "success"
                                    THEN 1 ELSE 0)

\* a job that reported progress (so had part files) exited with code 0 and
\* its 'completed' update was written
C11_Witness ==
    \E c \in Calls : /\ calls[c].cleanups = 1
                     /\ child[c].lastProgress # ""
                     /\ calls[c].written = "completed"

\* the job of call c went on after a rejected progress update: its outcome
\* is the one its exit code gives, and once the process has closed and
\* nothing is pending the call has made its terminal update and ended
C13_JobGoesOn(c) ==
    /\ child[c].first.kind = "close" =>
           calls[c].outcome = CloseOutcome(child[c].first.code)
    /\ (alive /\ microq = <<>> /\ child[c].state = "closed") =>
           (Ended(c) /\ calls[c].wakes = 1)

\* the step in which a progress update of call c is rejected changes
\* nothing of the call and of its process, and takes only that update off
\* the queue
C13_RejectionStep(c) ==
    (~child[c].progFailed /\ child'[c].progFailed) =>
        /\ calls' = calls
        /\ child' = [child EXCEPT ![c].progFailed = TRUE]
        /\ child[c].state = "running"
        /\ microq' = Tail(microq)
        /\ ledger' = ledger

\* C13: a failing progress update never aborts the job: the download
\* process is not terminated, the supervisor's outcome is still determined
\* by the exit code, and the terminal ledger update is still attempted.
C13_ProgressFailureSwallowed ==
    /\ [](\A c \in Calls : child[c].progFailed => C13_JobGoesOn(c))
    /\ [][\A c \in Calls : C13_RejectionStep(c)]_vars

\* a job whose progress update was rejected completed all the same
C13_Witness ==
    \E c \in Calls : /\ child[c].progFailed
                     /\ calls[c].written = "completed"
                     /\ calls[c].result.kind = "success"

\* the record with this id was written by a saveDownloadRecord that went on
\* to return it
Owned(downloadId) ==
    \/ \E d \in Calls : calls[d].downloadId = downloadId
    \/ \E i \in DOMAIN microq : /\ microq[i].k \in {"rec_saved", "rec_ret"}
                                /\ microq[i].id = downloadId

\* C14: a failure before the ledger record is created (the directory cannot
\* be created, or the ledger create fails) makes downloadVideo return a
\* failure result, with no record created, no ledger update attempted and
\* no download process spawned.
C14_FailureBeforeRecord ==
    /\ \A c \in Calls :
           ( /\ Ended(c)
             /\ calls[c].downloadId = 0
             /\ calls[c].result.kind # "already_exists" ) =>
               /\ calls[c].pc = "returned"
               /\ calls[c].result.kind = "failure"
               /\ calls[c].result.message \in {MkdirError, WriteError}
               /\ child[c].state = "none"
               /\ calls[c].written = "none"
               /\ calls[c].wakes = 0
               /\ \A i \in DOMAIN microq : microq[i].c # c
    /\ \A i \in DOMAIN ledger : Owned(ledger[i].id)

\* one call failed on the directory, or on the ledger create
C14_Witness ==
    \E c \in Calls : /\ Ended(c)
                     /\ calls[c].downloadId = 0
                     /\ calls[c].result.message = WriteError

\* the positions of a sequence that differ from the position before
RunHeads(seq) == {i \in DOMAIN seq : i = 1 \/ seq[i] # seq[i - 1]}

\* a sequence with every run of equal elements reduced to its first element
Debounced(seq) ==
    LET heads == RunHeads(seq)
        Nth(k) == CHOOSE i \in heads : Cardinality({j \in heads : j <= i}) = k
    IN [k \in 1..Cardinality(heads) |-> seq[Nth(k)]]

\* the percentages of the chunks that carry one
Percentages(seq) == SelectSeq(seq, LAMBDA chunk : chunk # "")

\* C12: progress debouncing: for any sequence of stdout chunks a progress
\* update is issued exactly for the chunks whose percentage differs from
\* the last one reported, in their order; 10,10,25,25,99 gives exactly the
\* three updates 10, 25, 99.
C12_ProgressDebounced ==
    /\ child[1].issued = Debounced(Percentages(child[1].seen))
    /\ child[1].seen = <<"10", "10", "25", "25", "99">> =>
           child[1].issued = <<"10", "25", "99">>
    /\ Len(microq) <= 1
    /\ microq # <<>> =>
           /\ microq[1].k = "prog_apply"
           /\ microq[1].add =
                  [progress |->
                      ProgressText(child[1].issued[Len(child[1].issued)])]

\* the stream 10,10,25,25,99 was delivered and its last update has resumed
C12_Witness ==
    /\ child[1].seen = <<"10", "10", "25", "25", "99">>
    /\ microq = <<>>
    /\ ledger[1].progress = ProgressText("99")

\* a step of the ledger call `op` made directly by a caller
ApiStep(op) == api'.op = op /\ now' = now /\ <<api, ledger, nextId>>' # <<api, ledger, nextId>>

\* C15: in every ledger state each id occurs in exactly one record, and
\* neither saveDownloadRecord (given any partial record) nor
\* updateDownloadStatus (given any additional fields) produces a duplicate
\* id or alters or removes the id of an existing record.
C15_IdsUniqueAndKept ==
    [][/\ \A i, j \in DOMAIN ledger' :
              ledger'[i].id = ledger'[j].id => i = j
       /\ (ApiStep("save") \/ ApiStep("update")) =>
              \A i \in DOMAIN ledger :
                  /\ i \in DOMAIN ledger'
                  /\ ledger'[i].id = ledger[i].id]_vars

\* C16: updateDownloadStatus and deleteDownloadRecord called with an id
\* that is not in the ledger fail with the not-found error and leave the
\* persisted document unchanged.
C16_UnknownIdNotFound ==
    [][((ApiStep("update") \/ ApiStep("delete")) /\ ~HasRecord(api'.id)) =>
           /\ api'.outcome = "threw"
           /\ api'.error = NotFoundError(api'.id)
           /\ ledger' = ledger]_vars

\* a delete of an id that no record of a readable, non-empty ledger has
C16_Witness ==
    /\ api.op = "delete"
    /\ api.outcome = "threw"
    /\ api.error = NotFoundError(api.id)
    /\ ~api.readFailed
    /\ ledger # <<>>
    /\ ~HasRecord(api.id)

\* the positions of a list that hold a record with this id
WithId(list, downloadId) == {i \in DOMAIN list : list[i].id = downloadId}

\* C17: ledger round trip (with every read and write succeeding): after
\* saveDownloadRecord returned an id, getDownloadHistory() holds exactly one
\* record with that id; after updateDownloadStatus(id, 'completed') returned,
\* getDownloadHistory({status: 'completed'}) holds that record and
\* getCurrentDownloads() does not.
C17_RoundTrip ==
    faults = 0 =>
        \A c \in Calls :
            LET id == calls[c].downloadId
                completed == [NoFilters EXCEPT !.status = "completed"]
            IN id # 0 =>
                /\ Cardinality(WithId(getDownloadHistory(ledger, NoFilters),
                                      id)) = 1
                /\ (calls[c].written = "completed" /\ calls[c].pc = "returned") =>
                       /\ WithId(getDownloadHistory(ledger, completed), id) # {}
                       /\ WithId(getCurrentDownloads(ledger), id) = {}

\* what every call does when its read of the ledger file fails: the lists
\* are empty, a create starts the document anew, a sweep finds nothing
C18_DegradesToEmpty ==
    /\ (ApiStep("list") \/ ApiStep("current")) =>
           (api'.outcome = "returned" /\ api'.value = <<>>)
    /\ ApiStep("save") =>
           \/ api'.outcome = "threw" /\ api'.error = WriteError
           \/ /\ api'.outcome = "returned"
              /\ Len(ledger') = 1
              /\ ledger'[1].created_at = now

C19_Sweeps(kept) ==
    (ApiStep("cleanup") /\ ~api'.readFailed /\ ~api'.writeFailed) =>
        /\ api'.outcome = "returned"
        /\ ledger' = kept
        /\ api'.count = Len(ledger) - Len(kept)

C20_SettledByFirst ==
    /\ (cmd.closed \/ cmd.errored \/ cmd.timer = "fired") =>
           cmd.promise.kind # "pending"
    /\ cmd.promise = cmd.first

\* the timeout killed the child: no child is left running
C20_TimeoutKills ==
    cmd.timer = "fired" => (cmd.kills = 1 /\ cmd.process # "running")

\* getVideoInfo returned, and returned the default record unless the
\* command resolved
C20_ReturnsInfo ==
    cmd.pc = "ended" =>
        /\ cmd.outcome = "returned"
        /\ cmd.promise.kind # "pending"
        /\ cmd.promise.kind = "rejected" => cmd.info = DefaultInfo(cmd.url)
        /\ cmd.promise.kind = "resolved" =>
               cmd.info = VideoInfo(cmd.promise.value, cmd.url)

\* C20: getVideoInfo never rejects: when the helper command fails to spawn,
\* exits non-zero or exceeds its timeout it returns the default record; the
\* timeout kills the child; and the command's promise settles exactly once,
\* in whichever order 'close', 'error' and the timer occur.
C20_MetadataNeverFails ==
    /\ [](C20_SettledByFirst /\ C20_TimeoutKills /\ C20_ReturnsInfo)
    /\ [][cmd.promise.kind # "pending" => cmd'.promise = cmd.promise]_vars

\* the timer fired first and killed the child, 'close' followed, and
\* getVideoInfo had returned the default record
C20_Witness ==
    /\ cmd.pc = "ended"
    /\ cmd.timer = "fired"
    /\ cmd.closed
    /\ cmd.kills = 1
    /\ cmd.promise = Rejected(CommandTimeout, "", <<>>)
    /\ cmd.outcome = "returned"
    /\ cmd.info = DefaultInfo(cmd.url)

\* the step is call c's saveDownloadRecord writing the document
C24_Creates(c) == calls'[c].created = calls[c].created + 1

\* the step spawns call c's download process
C24_Spawns(c) == child[c].state = "none" /\ child'[c].state # "none"

\* C24: per job the steps occur in the order resolve platform, fetch
\* metadata, build path, existence check, record, download: the download
\* process is never spawned before the job's record with status
\* 'in_progress' has been persisted, and exactly one record is created per
\* downloadVideo call that reaches the download step.
C24_RecordBeforeDownload ==
    /\ [](\A c \in Calls :
             /\ calls[c].created <= 1
             /\ child[c].state # "none" =>
                    (calls[c].created = 1 /\ calls[c].downloadId # 0))
    /\ [][\A c \in Calls :
             /\ C24_Creates(c) =>
                    /\ calls[c].pc = "recording"
                    /\ calls[c].outputPath =
                           JoinPath(DownloadDir(detectPlatform(calls[c].url)),
                                    generateFilename(
                                        [title |-> calls[c].title,
                                         uploader |-> calls[c].uploader],
                                        detectPlatform(calls[c].url)))
                    /\ calls[c].outputPath \notin files
                    /\ ledger'[Len(ledger')].id = Head(microq).id
                    /\ ledger'[Len(ledger')].status = "in_progress"
                    /\ ledger'[Len(ledger')].output_path = calls[c].outputPath
             /\ C24_Spawns(c) =>
                    /\ calls[c].created = 1
                    /\ calls[c].pc = "recording"
                    /\ calls'[c].pc = "downloading"
                    /\ calls'[c].downloadId = Head(microq).id]_vars

\* a call that fetched its metadata, created its record and spawned its
\* download process
C24_Witness ==
    \E c \in Calls : /\ ~calls[c].metaGiven
                     /\ calls[c].created = 1
                     /\ child[c].state = "running"
                     /\ HasRecord(calls[c].downloadId)

\* C28: no duplicate work under concurrency: at any time at most one
\* download process is running, and at most one ledger record is
\* 'in_progress', for a given output path, even when two downloadVideo
\* calls for the same URL and output location are in flight at once.
C28_NoDuplicateWork ==
    /\ \A c, d \in Calls :
           ( /\ child[c].state = "running"
             /\ child[d].state = "running"
             /\ calls[c].outputPath = calls[d].outputPath ) => c = d
    /\ \A i, j \in DOMAIN ledger :
           ( /\ ledger[i].status = "in_progress"
             /\ ledger[j].status = "in_progress"
             /\ ledger[i].output_path = ledger[j].output_path ) => i = j

\* C30: record consistency for the records downloadVideo writes: a
\* 'completed' record has completed_at and file_path and no failed_at or
\* error_message; a 'failed' record has failed_at and error_message and no
\* completed_at; an 'in_progress' record has neither completed_at nor
\* failed_at.
C30_RecordConsistent ==
    \A i \in DOMAIN ledger :
        LET r == ledger[i]
        IN /\ r.status \in {"in_progress", "completed", "failed"}
           /\ r.status = "completed" =>
                  /\ r.completed_at
                  /\ r.file_path = r.output_path
                  /\ ~r.failed_at
                  /\ r.error_message = NoError
           /\ r.status = "failed" =>
                  /\ r.failed_at
                  /\ r.error_message # NoError
                  /\ ~r.completed_at
           /\ r.status = "in_progress" =>
                  /\ ~r.completed_at
                  /\ ~r.failed_at

\* the ledger holds a completed record and a failed record
C30_Witness ==
    /\ \E i \in DOMAIN ledger : ledger[i].status = "completed"
    /\ \E i \in DOMAIN ledger : ledger[i].status = "failed"

\* line k of the tool's output, or the default when the output has no
\* line k or line k is blank
C26_Field(output, k, default) ==
    IF k <= Len(output) /\ Trim(output[k]) # <<>> THEN output[k] ELSE default

\* C26: metadata is parsed by positional line index: field k (title,
\* uploader, duration, view count, upload date) is taken from the k-th
\* line of the tool's output, and a missing or empty k-th line yields that
\* field's default without shifting the values of the other fields.
C26_ParsedByPosition ==
    (cmd.pc = "ended" /\ cmd.promise.kind = "resolved") =>
        /\ cmd.info.title = C26_Field(cmd.stdout, 1, UnknownTitle)
        /\ cmd.info.uploader = C26_Field(cmd.stdout, 2, UnknownUploader)
        /\ cmd.info.duration = C26_Field(cmd.stdout, 3, UnknownDuration)
        /\ cmd.info.view_count = C26_Field(cmd.stdout, 4, Null)
        /\ cmd.info.upload_date = C26_Field(cmd.stdout, 5, Null)

\* C27: updateDownloadStatus(id, status, fields) on an existing id changes
\* only that record: its position in the ledger, its id and every field
\* not supplied are preserved, status and the supplied fields are set,
\* updated_at is stamped, and all other records are unchanged.
C27_UpdateChangesOneRecord ==
    [][(ApiStep("update") /\ api'.outcome = "returned") =>
           /\ DOMAIN ledger' = DOMAIN ledger
           /\ \E k \in DOMAIN ledger :
                /\ ledger[k].id = api'.id
                /\ \A i \in DOMAIN ledger \ {k} : ledger'[i] = ledger[i]
                /\ ledger'[k].id = ledger[k].id
                /\ ledger'[k].status = "completed"
                /\ ledger'[k].updated_at
                /\ \A f \in DOMAIN api'.add \ {"id"} :
                       ledger'[k][f] = api'.add[f]
                /\ \A f \in DOMAIN ledger[k] \
                            (DOMAIN api'.add \cup {"status", "updated_at"}) :
                       ledger'[k][f] = ledger[k][f]]_vars

\* C29: saveDownloadRecord only appends: every record of the persisted
\* ledger before the call is still there after it, unmodified and in the
\* same order, with the new record last; also when loading the existing
\* document fails.
C29_SaveOnlyAppends ==
    [][(ApiStep("save") /\ api'.outcome = "returned") =>
           /\ Len(ledger') = Len(ledger) + 1
           /\ SubSeq(ledger', 1, Len(ledger)) = ledger
           /\ ledger'[Len(ledger')].created_at = now]_vars

\* C25: standard output is processed line by line: for every progress line
\* whose percentage differs from that of the previous progress line one
\* progress update is emitted, however the lines are grouped into data
\* chunks (several progress lines arriving in one chunk each count).
C25_LineByLine ==
    child[1].issued = Debounced(Percentages(child[1].lines))

\* the profiles whose domain is a substring of the host as it is written
C21_Matching(text) ==
    LET hostname == (IF text.www THEN WWW ELSE <<>>) \o text.host
    IN {i \in DOMAIN PLATFORM_CONFIG :
            Includes(hostname, PLATFORM_CONFIG[i].domain)}

\* C21: detectPlatform never throws: for a malformed URL it returns the
\* fallback profile (name 'unknown') with domain 'invalid'; otherwise it
\* strips a leading 'www.' and returns the first profile, in declaration
\* order, whose domain is a substring of the hostname, or the fallback
\* profile with the cleaned hostname; the name is the same for the http and
\* https and the www. and non-www. variants of one host, and
\* isSupportedPlatform(url) holds exactly when the name is not 'unknown'.
C21_DetectPlatform ==
    fn.op = "detectPlatform" =>
        LET text == fn.text
            hits == C21_Matching(text)
        IN /\ text.scheme = "" =>
                  /\ fn.profile.name = "unknown"
                  /\ fn.profile.domain = <<"i","n","v","a","l","i","d">>
           /\ (text.scheme # "" /\ hits = {}) =>
                  /\ fn.profile.name = "unknown"
                  /\ fn.profile.directory = DEFAULT_PLATFORM.directory
                  /\ fn.profile.domain = text.host
           /\ (text.scheme # "" /\ hits # {}) =>
                  \E i \in hits :
                      /\ \A j \in hits : i <= j
                      /\ fn.profile.name = PLATFORM_CONFIG[i].name
                      /\ fn.profile.directory = PLATFORM_CONFIG[i].directory
                      /\ fn.profile.prefix = PLATFORM_CONFIG[i].prefix
                      /\ fn.profile.domain = text.host
           /\ text.scheme # "" =>
                  \A scheme \in {"http", "https"}, www \in BOOLEAN :
                      detectPlatform(ParseURL([text EXCEPT
                          !.scheme = scheme, !.www = www])).name
                        = fn.profile.name
           /\ fn.supported <=> fn.profile.name # "unknown"

\* a host written with "www." that holds two domains: the first profile in
\* declaration order was returned, with the cleaned hostname
C21_Witness ==
    /\ fn.op = "detectPlatform"
    /\ fn.text.www
    /\ fn.text.scheme = "https"
    /\ Cardinality({PLATFORM_CONFIG[i].name : i \in C21_Matching(fn.text)}) = 2
    /\ fn.profile.name = "youtube"
    /\ fn.supported

\* the size of a character in UTF-8: the one character of the model that
\* is not ASCII takes three bytes
C22_Bytes(ch) == IF ch = "U7AD9" THEN 3 ELSE 1

\* the size of a text in UTF-8: one byte for each character and the
\* further bytes of the characters that take more
C22_ByteLength(text) ==
    Len(text)
      + (C22_Bytes("U7AD9") - 1)
          * Cardinality({i \in DOMAIN text : C22_Bytes(text[i]) > 1})

\* C22: for every title, uploader and platform profile the filename
\* generateFilename returns is at most 255 bytes long (multi-byte
\* characters counted by their encoded size), and the platform prefix and
\* the .mp4 extension are preserved when the name is truncated.
C22_FilenameFits ==
    fn.op = "generateFilename" =>
        /\ C22_ByteLength(fn.filename) <= MaxFilenameLength
        /\ Len(fn.filename) >= Len(MP4)
        /\ SubSeq(fn.filename, Len(fn.filename) - Len(MP4) + 1,
                  Len(fn.filename)) = MP4
        /\ StartsWith(fn.filename, fn.platform.prefix)

\* the arguments fail validation as the claim describes: no query (or an
\* empty one), or a quality outside the enumeration
C23_InvalidArgs ==
    \/ tool.query \in {"absent", "empty"}
    \/ tool.quality \notin {"", "best", "worst", "720p", "1080p", "480p", "360p"}

\* downloadVideo was not invoked, no record exists, no process was spawned
C23_NoDownloadStarted ==
    /\ tool.call = 0
    /\ \A c \in Calls : calls[c] = IdleCall /\ child[c] = NoChild
    /\ ledger = <<>>

\* C23: a handleDownloadVideo call without a query, or with a quality that
\* is not one of the allowed values, ends by raising an error to its
\* caller, and no download is started: downloadVideo is not invoked, no
\* ledger record is created and no process is spawned
C23_InvalidArgsRaise ==
    (tool.pc = "ended" /\ C23_InvalidArgs)
        => (tool.outcome = "threw" /\ C23_NoDownloadStarted)

====
